---- MODULE Spec2Model ----
(***************************************************************************)
(* A model of the conversation timeline of src/extension/content.js        *)
(* (class TimelineManager and the entry point below it).                   *)
(*                                                                         *)
(* Strings are sequences of UTF-16 code units (naturals), so that          *)
(* hashString, the base-36 conversion and string concatenation are         *)
(* computed as the code computes them.  32-bit unsigned values are kept as *)
(* two 16-bit limbs <<hi, lo>> because the arithmetic of hashString        *)
(* (hash * 31 + code) >>> 0 needs more than 31 bits.                       *)
(*                                                                         *)
(* The module holds one specification per subsystem:                       *)
(*   Spec          the Identity Index (ensureMessageId and its store)      *)
(*   SpecStore     the same, started over any stored item                  *)
(*   SpecFault     the same, started by a read of the store that threw     *)
(*   SpecFlush     the same over a store that accepts every write, with    *)
(*                 the debounced flush eventually firing                   *)
(*   SpecLoad      loadMessageIdMap and loadStars over any stored items    *)
(*   SpecGeometry  marker layout and the virtual range                     *)
(*   SpecActive    the Active-Marker Resolver and its timer                *)
(*   SpecStars     the starred set and its store                           *)
(*   SpecLifecycle instances, their timers and subscriptions, the entry    *)
(*                 point (initializeTimeline, handleUrlChange)             *)
(*   SpecTooltip   tooltip side, width and text fit                        *)
(*   SpecTeardown  the layout with destroy()                               *)
(*   SpecSync      the Scroll Synchronizer and the slider drag             *)
(*   SpecSched     scheduleScrollSync, the debounced rebuild and the       *)
(*                 zero-turn retry; SpecSchedFair adds the fairness of     *)
(*                 animation frames, time and due timeouts                 *)
(*   SpecBuild     the ids of the markers a rebuild builds                 *)
(*   SpecMarkStars the starred flags of those markers                      *)
(*   SpecRace      the store of the Identity Index under an instance       *)
(*                 destroyed while its init() awaited                      *)
(*   SpecMinGap    applyMinGap as a function                               *)
(*   SpecPress     long press and click on a dot                           *)
(*   SpecLive      the Active-Marker Resolver over rebuilt markers         *)
(* In each of them the variables of the other subsystems stay as the       *)
(* constructor leaves them.                                                *)
(***************************************************************************)
EXTENDS Integers, Sequences, FiniteSets, TLC

VARIABLES
    \* ---- Identity Index (content.js:86-90) ----
    fingerprintToTurnId,   \* Map fingerprint -> id, as the sequence of its entries in insertion order
    fingerprintMapDirty,   \* this.fingerprintMapDirty
    persistTimer,          \* the timeout held by persistFingerprintMapDebounced is pending
    lsMessageIds,          \* localStorage["deepseekTimelineMessageIds:<cid>"]
    lsWritten,             \* that item was last written by persistFingerprintMap (history)
    \* ---- observation of ensureMessageId (history) ----
    ret,                   \* what the last ensureMessageId returned, and what was known before it
    issued,                \* the id last returned for Watched (Undefined before), and whether by this instance
    held,                  \* its pair has stayed in the index, or in the store a fresh instance loaded, since
    fault,                 \* the store access of the last step threw, and the index before it; whether one threw in this instance
    \* ---- layout (content.js:45-56); lengths are in half pixels ----
    offsetTops,            \* offsetTop (px) of the [data-turn="user"] elements, in document order
    barHeight,             \* ui.timelineBar.clientHeight
    trackPadding,          \* --timeline-track-padding as read by getTrackPadding
    minGap,                \* --timeline-min-gap as read by getMinGap
    uiTrack,               \* this.ui.track and this.ui.trackContent are set: the bar is injected, not destroyed
    zeroTurnsTimer,        \* this.zeroTurnsTimer is set
    markers,               \* this.markers: baseN as its numerator over contentSpanPx
    markersVersion,        \* this.markersVersion
    dotElement,            \* m.dotElement of each marker: NoDot when null, else the name of its element
    contentSpanPx,         \* this.contentSpanPx
    contentHeight,         \* this.contentHeight
    yPositions,            \* this.yPositions, each multiplied by contentSpanPx
    visibleRange,          \* this.visibleRange
    viewport,              \* track scrollTop and clientHeight (px) read when visibleRange was computed, and
                           \* whether that pass found one dot to keep and another to remove (history)
    \* ---- Active-Marker Resolver (content.js:20, 37-40) ----
    now,                   \* performance.now(), ms
    activeTurnId,          \* this.activeTurnId
    lastActiveChangeTime,  \* this.lastActiveChangeTime
    pendingActiveId,       \* this.pendingActiveId
    activeChangeTimer,     \* the time this.activeChangeTimer is due, NoTimer when not set
    resolved,              \* the last two changes of the resolved id, and whether each was applied (history)
    fired,                 \* what the last firing of the timer found and did (history)
    \* ---- starred set (content.js:58, 1904-1939) ----
    starred,               \* this.starred, a Set, as the sequence of its members in insertion order
    markerStarred,         \* m.starred of the marker of each id
    lsStars,               \* localStorage["deepseekTimelineStars:<cid>"]
    storageEvent,          \* newValue of a 'storage' event not yet delivered, NoEvent when none
    twice,                 \* the state before the last one or two consecutive toggleStar calls (history)
    \* ---- entry point and instances (content.js:1941-2040) ----
    timelineManagerInstance, \* the instance the entry point holds, None when null
    initTimerId,           \* the 300ms timer of handleUrlChange is pending
    conversationRoute,     \* isConversationRoute() for the current location
    inst,                  \* per instance ever created: where init() is, destroyed, attached, pending timers
    \* ---- tooltip (content.js:1284-1298, 1645-1715); lengths are in pixels ----
    innerWidth,            \* window.innerWidth
    tipStyle,              \* the --timeline-tooltip-* variables as read by getCSSVarNumber
    measureEl,             \* how this.measureEl lays text out: width of a character, height of a line, padding and border
    dotRect,               \* dot.getBoundingClientRect() of the dot last hovered
    fullText,              \* the text of that dot
    tooltip,               \* what showTooltipForDot last handed to placeTooltipAt, NoTooltip before
    \* ---- Scroll Synchronizer (content.js:62, 754, 1456-1468, 1620-1643); lengths are in pixels ----
    sliderDragging,        \* this.sliderDragging
    sliderPointer,         \* the pointer that pressed the slider handle is still down
    trackScrollTop,        \* this.ui.track.scrollTop
    firstUserTurnOffset,   \* this.firstUserTurnOffset (0 while undefined)
    lastSync,              \* whether the last step called syncTimelineTrackToMain, what the call computed
                           \* and whether it assigned track.scrollTop (history)
    \* ---- schedulers (content.js:36, 71-80, 730-738, 1159-1165, 1717-1727); time is in ticks ----
    scrollPos,             \* this.scrollContainer.scrollTop
    passPos,               \* the scrollTop the last synchronization pass read (history)
    scrollRafId,           \* this.scrollRafId is not null
    frames,                \* the callbacks of scheduleScrollSync the browser holds for the next frame
    stale,                 \* the conversation has changed since the last rebuild began (history)
    sinceMutation,         \* ticks since the MutationObserver last notified, up to the debounce delay (history)
    rebuildTimeouts,       \* ticks left of each timeout of debouncedRecalculateAndRender the browser holds
    zeroTimeouts,          \* ticks left of each timeout set for this.zeroTurnsTimer the browser holds
    lastRebuild,           \* what started the last run of recalculateAndRenderMarkers and what it did (history)
    resizeIdleTimer,       \* this.resizeIdleTimer is set
    \* ---- the ids of the markers (content.js:249-262, 724, 758-774) ----
    turnEls,               \* the [data-turn="user"] elements the last rebuild found, in document order
    builtIds,              \* id of each marker of this.markers
    builtStarred,          \* starred of each marker of this.markers
    \* ---- the markers the Active-Marker Resolver scans (content.js:758-782) ----
    liveIds,               \* ids of this.markers, in document order
    \* ---- long press on a dot (content.js:93-99, 897-950, 1941-1947); time is in ticks ----
    pointerDown,           \* the primary pointer is down over a dot
    pressTargetDot,        \* this.pressTargetDot is set
    pressStartPos,         \* this.pressStartPos, <<>> when null
    longPressTriggered,    \* this.longPressTriggered
    longPressTimer,        \* ticks left of the timeout of this.longPressTimer, NoTimer when null
    suppressLeft,          \* ticks until Date.now() reaches this.suppressClickUntil, 0 from then on
    press,                 \* what the press in progress, or the last one, has done (history)
    \* ---- an instance destroyed while its init() awaited (content.js:119-132, 1788-1855) ----
    curInit,               \* where init() of the instance the entry point holds stands
    prevInit,              \* where init() of the instance destroyed before it stands; "none" when it has returned
    prevIndex,             \* fingerprintToTurnId of that instance
    prevDirty,             \* its fingerprintMapDirty
    prevTimer,             \* the timeout of its persistFingerprintMapDebounced is pending
    evicted,               \* the pairs trimFingerprintMapIfNeeded or the splice of persistFingerprintMap removed (history)
    lastWrite,             \* the pairs the store held that the last write did not write back (history)
    \* ---- applyMinGap as a function (content.js:1196-1229) ----
    gapIn,                 \* the arguments of a call of applyMinGap
    gapOut,                \* what the call returned
    gapAgain,              \* what applyMinGap returned for that result and the same bounds and gap
    gapRuns                \* how many of the two calls have been made

idVars == <<fingerprintToTurnId, fingerprintMapDirty, persistTimer, lsMessageIds, lsWritten>>
histVars == <<ret, issued, held, fault>>
domVars == <<offsetTops, barHeight, trackPadding, minGap>>
geoVars == <<uiTrack, zeroTurnsTimer, markers, markersVersion, dotElement, contentSpanPx,
             contentHeight, yPositions, visibleRange, viewport>>
actVars == <<now, activeTurnId, lastActiveChangeTime, pendingActiveId, activeChangeTimer,
             resolved, fired>>
starVars == <<starred, markerStarred, lsStars, storageEvent, twice>>
lifeVars == <<timelineManagerInstance, initTimerId, conversationRoute, inst>>
tipVars == <<innerWidth, tipStyle, measureEl, dotRect, fullText, tooltip>>
syncVars == <<sliderDragging, sliderPointer, trackScrollTop, firstUserTurnOffset, lastSync>>
schedVars == <<scrollPos, passPos, scrollRafId, frames, stale, sinceMutation, rebuildTimeouts,
               zeroTimeouts, lastRebuild, resizeIdleTimer>>
buildVars == <<turnEls, builtIds, builtStarred>>
liveVars == <<liveIds>>
pressVars == <<pointerDown, pressTargetDot, pressStartPos, longPressTriggered, longPressTimer,
               suppressLeft, press>>
raceVars == <<curInit, prevInit, prevIndex, prevDirty, prevTimer, evicted, lastWrite>>
gapVars == <<gapIn, gapOut, gapAgain, gapRuns>>
vars == <<idVars, histVars, domVars, geoVars, actVars, starVars, lifeVars, tipVars, syncVars,
          schedVars, buildVars, liveVars, pressVars, raceVars, gapVars>>

\* what the actions of the Identity Index leave alone
outsideIdentity == <<domVars, geoVars, actVars, starVars, lifeVars, tipVars, syncVars, schedVars, buildVars, liveVars, pressVars, raceVars, gapVars>>
\* what the actions of the layout leave alone; the track's offset is followed by the
\* actions of the Scroll Synchronizer, which take these handlers with it
outsideGeometry == <<idVars, histVars, actVars, starVars, lifeVars, tipVars, schedVars, buildVars, liveVars, pressVars, raceVars, gapVars>>
\* what the actions of the Active-Marker Resolver leave alone
outsideActive == <<idVars, histVars, domVars, geoVars, starVars, lifeVars, tipVars, syncVars, schedVars, buildVars, liveVars, pressVars, raceVars, gapVars>>
\* what the actions of the starred set leave alone; they write the markers' flags
outsideStars == <<idVars, histVars, domVars, geoVars, actVars, lifeVars, tipVars, syncVars, schedVars,
                  turnEls, builtIds, liveVars, pressVars, raceVars, gapVars>>
\* what the actions of the entry point and the instances' timers leave alone
outsideLifecycle == <<idVars, histVars, domVars, geoVars, actVars, starVars, tipVars, syncVars, schedVars, buildVars, liveVars, pressVars, raceVars, gapVars>>
\* what showing a tooltip leaves alone
outsideTooltip == <<idVars, histVars, domVars, geoVars, actVars, starVars, lifeVars, syncVars, schedVars, buildVars, liveVars, pressVars, raceVars, gapVars>>

(***************************************************************************)
(* Strings and hashString                                                  *)
(***************************************************************************)
W16 == 65536

\* one round of hashString's loop: hash = (hash * 31 + str.charCodeAt(i)) >>> 0
HashStep(h, c) ==
    LET lo == h[2] * 31 + c
        hi == (h[1] * 31 + (lo \div W16)) % W16
    IN  <<hi, lo % W16>>

\* the for loop of hashString from index i on, with the hash so far; each round's
\* value is computed before the next round starts
RECURSIVE HashFrom(_, _, _)
HashFrom(str, i, h) ==
    IF i > Len(str) THEN h
    ELSE LET h2 == HashStep(h, str[i])
         IN  IF h2[1] < 0 THEN h2 ELSE HashFrom(str, i + 1, h2)

\* a digit of Number.prototype.toString(36) as a code unit: 0-9, a-z
Digit36(d) == IF d < 10 THEN 48 + d ELSE 87 + d

\* n.toString(36) for n = hi * 65536 + lo, by long division on the limbs
RECURSIVE toString36(_)
toString36(n) ==
    LET low == (n[1] % 36) * W16 + n[2]
        q   == <<n[1] \div 36, low \div 36>>
    IN  IF q = <<0, 0>> THEN <<Digit36(low % 36)>>
        ELSE Append(toString36(q), Digit36(low % 36))

hashString(input) == toString36(HashFrom(input, 1, <<0, 0>>))

\* String(n) for a natural n, in code units
RECURSIVE ToDec(_)
ToDec(n) == IF n < 10 THEN <<48 + n>> ELSE Append(ToDec(n \div 10), 48 + (n % 10))

Min(a, b) == IF a < b THEN a ELSE b
Max(a, b) == IF a > b THEN a ELSE b

Bar == <<124>>                                        \* "|"
Dash == <<45>>                                        \* "-"
DsTurn == <<100, 115, 45, 116, 117, 114, 110, 45>>    \* "ds-turn-"
RoleUser == <<117, 115, 101, 114>>                    \* "user"

(***************************************************************************)
(* Anchors: the message elements the host document hands over.  An element *)
(* is [role, text, html, ts, attr]: its data-turn role, its normalized     *)
(* textContent, its innerHTML, its timestamp text (extractTimestampText)   *)
(* and its durable id attribute (empty when the host exposes none).  Every  *)
(* resolution is made on a freshly created element (the host recreates     *)
(* its nodes), so neither dataset.turnId nor the WeakMap messageIdMap      *)
(* holds it yet.                                                           *)
(***************************************************************************)
conversationId == <<99, 49>>                          \* "c1"

TextHi == <<104, 105>>                                \* "hi"

\* timestamp texts whose fingerprints have equal hashString values ("Aa" and "BB" collide)
Stamps == { <<65, 97, 65, 97>>, <<65, 97, 66, 66>>, <<66, 66, 65, 97>>, <<66, 66, 66, 66>> }

El(ts, attr) == [role |-> RoleUser, text |-> TextHi, html |-> TextHi, ts |-> ts, attr |-> attr]

DurableId == <<109, 49>>                              \* "m1"

Anchors == { El(ts, <<>>) : ts \in Stamps } \cup { El(<<>>, DurableId) }

\* Date.now() as limbs: 1700000000000 + t
DateNow(t) == <<25939941, 26624 + t>>

\* the values Date.now() takes at two resolutions: the same millisecond, or another one
Clock == {0, 1}

buildMessageSignature(el) ==
    LET normalizedText == el.text
        textHash    == IF normalizedText # <<>> THEN hashString(normalizedText) ELSE <<>>
        textLength  == IF normalizedText # <<>> THEN Len(normalizedText) ELSE 0
        leadingHash == IF normalizedText # <<>>
                       THEN hashString(SubSeq(normalizedText, 1, Min(160, Len(normalizedText))))
                       ELSE <<>>
        htmlHash    == IF el.html # <<>> THEN hashString(el.html) ELSE <<>>
    IN  textHash \o Bar \o ToDec(textLength) \o Bar \o leadingHash \o Bar \o htmlHash

\* JSON.stringify({ c: conversationKey, r: roleGuess, s: signature, t: timestamp })
computeMessageFingerprint(el) ==
    <<123, 34, 99, 34, 58, 34>> \o conversationId
    \o <<34, 44, 34, 114, 34, 58, 34>> \o el.role
    \o <<34, 44, 34, 115, 34, 58, 34>> \o buildMessageSignature(el)
    \o <<34, 44, 34, 116, 34, 58, 34>> \o el.ts
    \o <<34, 125>>

\* The strings hashed for the anchors, computed once: the fingerprint of each element,
\* hashString(fingerprint) and hashString(`${fingerprint}|${suffix}`) for suffix 1..9.
FingerprintOf == [el \in Anchors |-> computeMessageFingerprint(el)]

Fingerprints == { FingerprintOf[el] : el \in { a \in Anchors : a.attr = <<>> } }

BaseHashOf == [f \in Fingerprints |-> hashString(f)]

SuffixHashOf == [f \in Fingerprints |-> [suffix \in 1..10 |-> hashString(f \o Bar \o ToDec(suffix))]]

(***************************************************************************)
(* The Identity Index: a Map kept as the sequence of its entries           *)
(***************************************************************************)
\* the value of a missing Map entry; no id, which is a string of code units, equals it
Undefined == <<-1>>

MapHas(m, k) == \E i \in 1..Len(m) : m[i][1] = k

\* a lookup that never hits, as when keys are compared by identity
MapGetMiss(m, k) == Undefined

MapGet(m, k) ==
    IF MapHas(m, k) THEN m[CHOOSE i \in 1..Len(m) : m[i][1] = k][2] ELSE Undefined

\* Map.prototype.set: an existing key keeps its place
MapSet(m, k, v) ==
    IF MapHas(m, k) THEN [i \in 1..Len(m) |-> IF m[i][1] = k THEN <<k, v>> ELSE m[i]]
    ELSE Append(m, <<k, v>>)

fingerprintMapLimit == 3

isTurnIdTaken(m, id, fingerprint) ==
    /\ id # <<>>
    /\ \E i \in 1..Len(m) : m[i][2] = id /\ m[i][1] # fingerprint

\* a trim that removes the newest entries
trimNewest(m) ==
    IF Len(m) < fingerprintMapLimit THEN m ELSE SubSeq(m, 1, fingerprintMapLimit - 1)

trimFingerprintMapIfNeeded(m) ==
    IF Len(m) < fingerprintMapLimit THEN m
    ELSE LET overflow == Len(m) - fingerprintMapLimit + 1
         IN  SubSeq(m, overflow + 1, Len(m))

SuffixCandidate(fingerprint, baseHash, suffix) ==
    LET suffixHash == SuffixHashOf[fingerprint][suffix]
    IN  DsTurn \o baseHash \o Dash \o SubSeq(suffixHash, 1, Min(4, Len(suffixHash)))

\* the while (suffix < 10) loop: the candidate it leaves behind
RECURSIVE SuffixLoop(_, _, _, _)
SuffixLoop(m, fingerprint, baseHash, suffix) ==
    LET candidate == SuffixCandidate(fingerprint, baseHash, suffix)
    IN  IF ~isTurnIdTaken(m, candidate, fingerprint) THEN candidate
        ELSE IF suffix + 1 < 10 THEN SuffixLoop(m, fingerprint, baseHash, suffix + 1)
        ELSE candidate

\* a choice without the collision policy
NewCandidateBase(m, fingerprint, t) == DsTurn \o BaseHashOf[fingerprint]

\* lines 593-607: the id chosen for a fingerprint the index does not hold
NewCandidate(m, fingerprint, t) ==
    LET baseHash == BaseHashOf[fingerprint]
        c0 == DsTurn \o baseHash
    IN  IF ~isTurnIdTaken(m, c0, fingerprint) THEN c0
        ELSE LET c1 == SuffixLoop(m, fingerprint, baseHash, 1)
             IN  IF isTurnIdTaken(m, c1, fingerprint)
                 THEN DsTurn \o baseHash \o Dash \o toString36(DateNow(t))
                 ELSE c1

\* ensureMessageId(el): the id returned, the index afterwards and whether it was mutated
ensureMessageId(el, m, t) ==
    IF el.attr # <<>> THEN [id |-> el.attr, map |-> m, inserted |-> FALSE]
    ELSE LET fingerprint == FingerprintOf[el]
             found == MapGet(m, fingerprint)
         IN  IF found # Undefined /\ found # <<>>
             THEN [id |-> found, map |-> m, inserted |-> FALSE]
             ELSE LET id == NewCandidate(m, fingerprint, t)
                  IN  [id |-> id,
                       map |-> MapSet(trimFingerprintMapIfNeeded(m), fingerprint, id),
                       inserted |-> TRUE]

(***************************************************************************)
(* localStorage holds strings; a stored string is kept as the value        *)
(* JSON.parse gives for it: JStr, JNum, JArr (items in order), JObj (its   *)
(* entries in order), NotJson when JSON.parse throws, and NoItem when      *)
(* getItem returns null.                                                   *)
(***************************************************************************)
JStr(s) == [k |-> "str", v |-> s]
JNum(n) == [k |-> "num", v |-> n]
JArr(items) == [k |-> "arr", v |-> items]
JObj(entries) == [k |-> "obj", v |-> entries]
\* localStorage.getItem throws (storage blocked): loadMessageIdMap's catch is entered
GetItemThrows == [k |-> "throw", v |-> <<>>]
NotJson == [k |-> "bad", v |-> <<>>]
\* the JSON value null
JNull == [k |-> "jnull", v |-> <<>>]
NoItem == [k |-> "null", v |-> <<>>]

\* JSON.stringify(Array.from(map.entries())), as the value it parses back to
StringifyEntries(entries) ==
    JArr([i \in 1..Len(entries) |-> JArr(<<JStr(entries[i][1]), JStr(entries[i][2])>>)])

\* the loop without its typeof checks: every entry of two or more items is taken
RECURSIVE LoadArrayUntyped(_, _, _)
LoadArrayUntyped(items, i, m) ==
    IF i > Len(items) THEN m
    ELSE LET entry == items[i]
             ok == entry.k = "arr" /\ Len(entry.v) >= 2
         IN  LoadArrayUntyped(items, i + 1,
                              IF ok THEN MapSet(m, entry.v[1].v, entry.v[2].v) ELSE m)

\* the body of loadMessageIdMap's for loops: the map after entries i.. of the parsed array
RECURSIVE LoadArray(_, _, _)
LoadArray(items, i, m) ==
    IF i > Len(items) THEN m
    ELSE LET entry == items[i]
             ok == /\ entry.k = "arr"
                   /\ Len(entry.v) >= 2
                   /\ entry.v[1].k = "str"
                   /\ entry.v[2].k = "str"
         IN  LoadArray(items, i + 1,
                       IF ok THEN MapSet(m, entry.v[1].v, entry.v[2].v) ELSE m)

RECURSIVE LoadObject(_, _, _)
LoadObject(entries, i, m) ==
    IF i > Len(entries) THEN m
    ELSE LoadObject(entries, i + 1,
                    IF entries[i][2].k = "str"
                    THEN MapSet(m, entries[i][1], entries[i][2].v) ELSE m)

\* loadMessageIdMap: the index after it, from the stored item
loadMessageIdMap(raw) ==
    IF raw = NoItem \/ raw = NotJson \/ raw = GetItemThrows THEN <<>>
    ELSE IF raw.k = "arr" THEN LoadArray(raw.v, 1, <<>>)
    ELSE IF raw.k = "obj" THEN LoadObject(raw.v, 1, <<>>)
    ELSE <<>>

\* persistFingerprintMap's try block: the value handed to localStorage.setItem
PersistedEntries(m) ==
    StringifyEntries(IF Len(m) > fingerprintMapLimit
                     THEN SubSeq(m, Len(m) - fingerprintMapLimit + 1, Len(m))
                     ELSE m)

\* a flush that returns without writing
persistNothing(force, ok) == UNCHANGED <<lsMessageIds, lsWritten, fingerprintMapDirty>>

\* persistFingerprintMap(force) with setItem succeeding (ok) or throwing
persistFingerprintMap(force, ok) ==
    IF ~force /\ ~fingerprintMapDirty
    THEN UNCHANGED <<lsMessageIds, lsWritten, fingerprintMapDirty>>
    ELSE IF ok
         THEN /\ lsMessageIds' = PersistedEntries(fingerprintToTurnId)
              /\ lsWritten' = TRUE
              /\ fingerprintMapDirty' = FALSE
         ELSE UNCHANGED <<lsMessageIds, lsWritten, fingerprintMapDirty>>

(***************************************************************************)
(* History of resolutions, kept for the claims about determinism           *)
(***************************************************************************)
\* The resolutions of one fingerprint are followed.  The fingerprints of Stamps differ
\* only in their timestamp text and have the same hashes, so which one is followed
\* makes no difference.
Watched == FingerprintOf[El(<<65, 97, 66, 66>>, <<>>)]

NoRet == [id |-> Undefined, prev |-> Undefined, held |-> FALSE, here |-> FALSE, faulted |-> FALSE]

\* no store access has thrown
NoFault == [now |-> "none", before |-> <<>>, ever |-> FALSE]

\* the pairs of a stored value that loadMessageIdMap is meant to take over
StoredPairs(raw) ==
    IF raw.k = "arr"
    THEN { <<raw.v[i].v[1].v, raw.v[i].v[2].v>> :
             i \in { j \in 1..Len(raw.v) :
                       /\ raw.v[j].k = "arr" /\ Len(raw.v[j].v) >= 2
                       /\ raw.v[j].v[1].k = "str" /\ raw.v[j].v[2].k = "str"
                       /\ \A l \in (j + 1)..Len(raw.v) :
                            ~(raw.v[l].k = "arr" /\ Len(raw.v[l].v) >= 2
                              /\ raw.v[l].v[1] = raw.v[j].v[1] /\ raw.v[l].v[2].k = "str") } }
    ELSE {}

(***************************************************************************)
(* Layout.  Lengths are integers in half pixels, so that a padding or gap  *)
(* of n + 1/2 px can be read from the style and Math.ceil has work to do.  *)
(* baseN is kept as its numerator over contentSpanPx, and a position y as  *)
(* y * contentSpanPx, which keeps pad + baseN * usableC exact.             *)
(***************************************************************************)
MaxMarkers == 3
\* the rebuilds of markers that are followed
MaxVersion == 3

OffsetTops == {0, 1, 3}              \* px
BarHeights == {0, 40, 500}           \* px
\* padding and gap in half px: the defaults 12 and 12; no padding and a gap of 150.5;
\* a gap of 0; a gap of -1
TrackStyles == { [pad |-> 24, gap |-> 24], [pad |-> 0, gap |-> 301],
                 [pad |-> 24, gap |-> 0], [pad |-> 25, gap |-> -2] }
ScrollTops == {0, 150}               \* px
TrackHeights == {40, 500}            \* px

\* recalculateAndRenderMarkers: contentSpan and the markers' baseN
BuildMarkers(tops) ==
    LET firstTurnOffset == tops[1]
        span == IF Len(tops) < 2 THEN 1 ELSE tops[Len(tops)] - firstTurnOffset
        contentSpan == IF span <= 0 THEN 1 ELSE span
    IN  [contentSpanPx |-> contentSpan,
         markers |-> [i \in 1..Len(tops) |->
                        [baseN |-> Max(0, Min(contentSpan, tops[i] - firstTurnOffset))]]]

\* for (i = 1; i < n; i++) out[i] = Math.max(src[i], out[i - 1] + gap), out[0] given
RECURSIVE ForwardPass(_, _, _, _)
ForwardPass(src, out, i, gap) ==
    IF i > Len(src) THEN out
    ELSE ForwardPass(src, Append(out, Max(src[i], out[i - 1] + gap)), i + 1, gap)

BackwardPassNone(out, i, gap) == out

\* for (i = n - 2; i >= 0; i--) out[i] = Math.min(out[i], out[i + 1] - gap)
RECURSIVE BackwardPass(_, _, _)
BackwardPass(out, i, gap) ==
    IF i < 1 THEN out
    ELSE BackwardPass([out EXCEPT ![i] = Min(out[i], out[i + 1] - gap)], i - 1, gap)

FinalClamp(out, minTop, maxTop) ==
    [i \in 1..Len(out) |->
        LET a == IF out[i] < minTop THEN minTop ELSE out[i]
        IN  IF a > maxTop THEN maxTop ELSE a]

\* applyMinGap running its backward pass whether or not the last position exceeds maxTop
applyMinGapAlwaysBack(positions, minTop, maxTop, gap) ==
    LET n == Len(positions) IN
    IF n = 0 THEN positions
    ELSE LET first == Max(minTop, Min(positions[1], maxTop))
             fwd == ForwardPass(positions, <<first>>, 2, gap)
             b == BackwardPass([fwd EXCEPT ![n] = maxTop], n - 1, gap)
             back == IF b[1] < minTop THEN ForwardPass(b, <<minTop>>, 2, gap) ELSE b
         IN  FinalClamp(back, minTop, maxTop)

applyMinGap(positions, minTop, maxTop, gap) ==
    LET n == Len(positions) IN
    IF n = 0 THEN positions
    ELSE LET first == Max(minTop, Min(positions[1], maxTop))
             fwd == ForwardPass(positions, <<first>>, 2, gap)
             back == IF fwd[n] > maxTop
                     THEN LET b == BackwardPass([fwd EXCEPT ![n] = maxTop], n - 1, gap)
                          IN  IF b[1] < minTop
                              THEN ForwardPass(b, <<minTop>>, 2, gap)
                              ELSE b
                     ELSE fwd
         IN  FinalClamp(back, minTop, maxTop)

\* Math.ceil of a length in half pixels
Ceil(x) == x + (x % 2)

ContentHeight(n, h, pad, gap) ==
    Ceil(Max(2 * h, IF n > 0 THEN 2 * pad + Max(0, n - 1) * gap ELSE 2 * h))

UsableC(height, pad) == Max(2, height - 2 * pad)

DesiredYMirrored(m, span, pad, usableC) == pad * span + (span - m.baseN) * usableC

\* pad + clamp01(baseN) * usableC
DesiredY(m, span, pad, usableC) == pad * span + Max(0, Min(span, m.baseN)) * usableC

\* updateTimelineGeometry: contentHeight and yPositions
updateTimelineGeometry(ms, span, h, pad, gap) ==
    LET height == ContentHeight(Len(ms), h, pad, gap)
        usableC == UsableC(height, pad)
        desiredY == [i \in 1..Len(ms) |-> DesiredY(ms[i], span, pad, usableC)]
    IN  [contentHeight |-> height,
         yPositions |-> applyMinGap(desiredY, pad * span, (pad + usableC) * span, gap * span)]

RECURSIVE lowerBoundLoop(_, _, _, _)
lowerBoundLoop(arr, x, lo, hi) ==
    IF lo < hi
    THEN LET mid == (lo + hi) \div 2
         IN  IF arr[mid + 1] < x THEN lowerBoundLoop(arr, x, mid + 1, hi)
                                 ELSE lowerBoundLoop(arr, x, lo, mid)
    ELSE lo

lowerBound(arr, x) == lowerBoundLoop(arr, x, 0, Len(arr))

RECURSIVE upperBoundLoop(_, _, _, _)
upperBoundLoop(arr, x, lo, hi) ==
    IF lo < hi
    THEN LET mid == (lo + hi) \div 2
         IN  IF arr[mid + 1] <= x THEN upperBoundLoop(arr, x, mid + 1, hi)
                                  ELSE upperBoundLoop(arr, x, lo, mid)
    ELSE lo

upperBoundNoStep(arr, x) == upperBoundLoop(arr, x, 0, Len(arr))

upperBound(arr, x) == upperBoundLoop(arr, x, 0, Len(arr)) - 1

BufferFloor == 100

\* a pixel length in the unit of yPositions
Scaled(px, span) == px * 2 * span

\* end clamped to start instead of start - 1
VirtualRangeClampStart(ys, span, st, vh) ==
    LET buffer == Max(BufferFloor, vh)
        start == lowerBound(ys, Scaled(st - buffer, span))
    IN  [start |-> start,
         end |-> Max(start, upperBound(ys, Scaled(st + vh + buffer, span)))]

\* updateVirtualRangeAndRender: start and end (indices from 0, as in the code)
VirtualRange(ys, span, st, vh) ==
    LET buffer == Max(BufferFloor, vh)
        start == lowerBound(ys, Scaled(st - buffer, span))
    IN  [start |-> start,
         end |-> Max(start - 1, upperBound(ys, Scaled(st + vh + buffer, span)))]

\* m.dotElement is null
NoDot == 0

\* document.createElement('button'): an element other than the one the marker held
\* when the pass began.  Elements are named per marker and per step: 1, or 2 when
\* the marker held 1.
NewDot(old) == IF old = 1 THEN 2 ELSE 1

InRange(i, r) == r.start <= i /\ i <= r.end

\* every pass starts from nothing: all dots removed, all made again
RenderPassFromScratch(dots, prev, r) ==
    [i \in 1..Len(dots) |-> IF InRange(i - 1, r) THEN NewDot(dots[i]) ELSE NoDot]

\* updateVirtualRangeAndRender, 1481-1537: the dotElement of each marker after a pass
\* that read visibleRange as prev and computed the range r.  An element is in
\* trackContent exactly when a marker holds it.
RenderPass(dots, prev, r) ==
    LET len == Len(dots)
        prevStart == Max(0, Min(prev.start, len - 1))
        prevEnd == Max(-1, Min(prev.end, len - 1))
        removed(i) == IF prevEnd >= prevStart
                      THEN \/ prevStart <= i /\ i < Min(r.start, prevEnd + 1)
                           \/ Max(r.end + 1, prevStart) <= i /\ i <= prevEnd
                      ELSE TRUE
        left == [i \in 1..len |-> IF removed(i - 1) THEN NoDot ELSE dots[i]]
    IN  [i \in 1..len |-> IF InRange(i - 1, r) /\ left[i] = NoDot
                          THEN NewDot(dots[i])
                          ELSE left[i]]

\* the pass found a marker holding an element inside both the range it read and the
\* range it computed, and another holding one inside the former only
Diffed(dots, prev, r) ==
    /\ \E i \in 1..Len(dots) : dots[i] # NoDot /\ InRange(i - 1, prev) /\ InRange(i - 1, r)
    /\ \E i \in 1..Len(dots) : dots[i] # NoDot /\ InRange(i - 1, prev) /\ ~InRange(i - 1, r)

NoViewport == [st |-> 0, vh |-> 0, fresh |-> FALSE, diffed |-> FALSE]

NoSync == [called |-> FALSE, computed |-> FALSE, wrote |-> FALSE, target |-> 0, th |-> 0]

NoRebuild == [by |-> "none", found |-> "none", armed |-> FALSE]

NoPress == [toggled |-> FALSE, navigated |-> FALSE, early |-> FALSE, at |-> <<0, 0>>]

\* the constructor's values (93-99)
PressConstructed ==
    /\ pointerDown = FALSE
    /\ pressTargetDot = FALSE
    /\ pressStartPos = <<>>
    /\ longPressTriggered = FALSE
    /\ longPressTimer = -1
    /\ suppressLeft = 0
    /\ press = NoPress

NoWrite == [by |-> "none", dropped |-> {}]

\* the first instance: its init() has loaded the index and waits in findCriticalElements
RaceConstructed ==
    /\ curInit = "awaiting"
    /\ prevInit = "none"
    /\ prevIndex = <<>>
    /\ prevDirty = FALSE
    /\ prevTimer = FALSE
    /\ evicted = {}
    /\ lastWrite = NoWrite

\* no rebuild has run: this.markers is empty (19)
BuildConstructed ==
    /\ turnEls = <<>>
    /\ builtIds = <<>>
    /\ builtStarred = <<>>

\* the constructor's values (36, 71-80) over a page scrolled to its top
SchedConstructed ==
    /\ scrollPos = 0
    /\ passPos = 0
    /\ scrollRafId = FALSE
    /\ frames = 0
    /\ stale = FALSE
    /\ sinceMutation = 0
    /\ rebuildTimeouts = <<>>
    /\ zeroTimeouts = <<>>
    /\ lastRebuild = NoRebuild
    /\ resizeIdleTimer = FALSE

SyncConstructed ==
    /\ sliderDragging = FALSE
    /\ sliderPointer = FALSE
    /\ trackScrollTop = 0
    /\ firstUserTurnOffset = 0
    /\ lastSync = NoSync

\* the constructor's values, over a page with no user turn yet
GeometryConstructed(h, pad, gap) ==
    /\ SyncConstructed
    /\ SchedConstructed
    /\ RaceConstructed
    /\ PressConstructed
    /\ BuildConstructed
    /\ offsetTops = <<>>
    /\ barHeight = h
    /\ trackPadding = pad
    /\ minGap = gap
    /\ uiTrack = TRUE
    /\ zeroTurnsTimer = FALSE
    /\ markers = <<>>
    /\ markersVersion = 0
    /\ dotElement = <<>>
    /\ contentSpanPx = 1
    /\ contentHeight = 0
    /\ yPositions = <<>>
    /\ visibleRange = [start |-> 0, end |-> -1]
    /\ viewport = NoViewport

(***************************************************************************)
(* Active-Marker Resolver.  Marker ids are 1..3 in position order, None is *)
(* null.  Time is in ms and advances in steps of TickMs.                   *)
(***************************************************************************)
None == 0
MarkerIds == <<1, 2, 3>>
minActiveChangeInterval == 120
TickMs == 60
MaxNow == 360
NoTimer == -1

\* the scan of computeActiveByScroll: below[i] is "top of marker i <= ref"
RECURSIVE ScanActive(_, _, _)
ScanActive(below, i, activeId) ==
    IF i > Len(MarkerIds) THEN activeId
    ELSE IF below[i] THEN ScanActive(below, i + 1, MarkerIds[i])
         ELSE activeId

resolveActive(below) == ScanActive(below, 1, MarkerIds[1])

KeepPending(pending, activeId) == IF pending = None THEN activeId ELSE pending

\* this.pendingActiveId = activeId
StorePending(pending, activeId) == activeId

NoChange == [id |-> None, at |-> 0, applied |-> FALSE]
NoFire == [happened |-> FALSE, pending |-> None, overwritten |-> None, applied |-> None]

\* the history of resolved ids after a run that resolved activeId
Resolve(h, activeId, t) ==
    IF h.last.id = activeId THEN h
    ELSE [prev |-> h.last, last |-> [id |-> activeId, at |-> t, applied |-> FALSE],
          overwritten |-> h.overwritten]

\* the history of resolved ids after id has been written to activeTurnId
Apply(h, id) ==
    [h EXCEPT !.last.applied = @ \/ (h.last.id = id),
              !.prev.applied = @ \/ (h.prev.id = id /\ h.last.id # id)]

NoGapCall == [positions |-> <<>>, minTop |-> 0, maxTop |-> 0, gap |-> 0]

\* applyMinGap has not been called
GapConstructed ==
    /\ gapIn = NoGapCall
    /\ gapOut = <<>>
    /\ gapAgain = <<>>
    /\ gapRuns = 0

\* the state the first rebuild leaves: the markers of every user turn, the last one
\* active (780-782)
ActiveConstructed ==
    /\ now = 0
    /\ liveIds = MarkerIds
    /\ activeTurnId = MarkerIds[Len(MarkerIds)]
    /\ lastActiveChangeTime = 0
    /\ pendingActiveId = None
    /\ activeChangeTimer = NoTimer
    /\ resolved = [prev |-> NoChange, last |-> NoChange, overwritten |-> None]
    /\ fired = NoFire

(***************************************************************************)
(* Starred set.  A stored value is kept as JSON.parse reads it.            *)
(***************************************************************************)
StarIds == { <<97>>, <<49>> }                         \* the marker ids "a" and "1"
NoEvent == [k |-> "none", v |-> <<>>]

Range(seq) == { seq[i] : i \in 1..Len(seq) }

\* Set.prototype.add / delete on the insertion-ordered members
SetAdd(members, x) == IF x \in Range(members) THEN members ELSE Append(members, x)
SetDelete(members, x) == SelectSeq(members, LAMBDA y : y # x)

\* String(id) of an array item
StringOf(item) ==
    IF item.k = "num" THEN ToDec(item.v)
    ELSE IF item.k = "jnull" THEN <<110, 117, 108, 108>>      \* "null"
    ELSE item.v

RECURSIVE AddAll(_, _, _)
AddAll(items, i, members) ==
    IF i > Len(items) THEN members
    ELSE AddAll(items, i + 1, SetAdd(members, StringOf(items[i])))

\* a load that takes nothing from the item
loadStarsNone(raw) == <<>>

\* loadStars: the set read from a stored value
loadStars(raw) == IF raw.k = "arr" THEN AddAll(raw.v, 1, <<>>) ELSE <<>>

\* JSON.stringify(Array.from(this.starred))
StringifyStars(members) == JArr([i \in 1..Len(members) |-> JStr(members[i])])

ToggleAddOnly(members, id) == SetAdd(members, id)

\* toggleStar: the change of the set
Toggle(members, id) == IF id \in Range(members) THEN SetDelete(members, id) ELSE SetAdd(members, id)

\* m.starred of every marker, from the set
FlagsOf(members) == [id \in StarIds |-> id \in Range(members)]

\* m.starred = this.starred.has(m.id) for every marker (771, 1096-1100)
StarredOf(ids, members) == [i \in 1..Len(ids) |-> ids[i] \in Range(members)]

\* the markers markerMap.get(id) gives: markerMap.set(m.id, m) ran in document order
\* (772), so the entry of an id is the last marker built with it
markerMapGet(ids, id) ==
    LET at == { i \in 1..Len(ids) : ids[i] = id }
    IN  IF at = {} THEN {} ELSE { CHOOSE i \in at : \A j \in at : j <= i }

NoToggle == [calls |-> 0, id |-> <<>>, flag |-> FALSE, members |-> {}, stored |-> {},
             synced |-> FALSE, written |-> FALSE, lastWritten |-> FALSE, reload |-> "no"]

StarsConstructed ==
    /\ starred = <<>>
    /\ markerStarred = FlagsOf(<<>>)
    /\ lsStars = NoItem
    /\ storageEvent = NoEvent
    /\ twice = NoToggle

(***************************************************************************)
(* Instances.  An instance is where its init() stands ("none" before it is *)
(* created, "awaiting" inside await findCriticalElements(), "attached"     *)
(* after setupObservers, "gaveUp" when no element was found), whether      *)
(* destroy() has returned, whether its UI, listeners and observers are     *)
(* attached, and the timers and frames it has pending.                     *)
(***************************************************************************)
MaxInstances == 2

Timers == {"rebuild", "zeroTurns", "persist", "activeChange", "longPress", "scrollRaf"}

\* the timers destroy() clears: activeChangeTimer and scrollRafId
ClearedByDestroy == {"activeChange", "scrollRaf"}

NoInstance == [init |-> "none", destroyed |-> FALSE, attached |-> FALSE, timers |-> {},
               ranAfterDestroy |-> FALSE, wroteAfterDestroy |-> FALSE]

\* destroy(): observers and listeners detached, UI removed, some timers cleared
destroy(r) ==
    [r EXCEPT !.destroyed = TRUE, !.attached = FALSE, !.timers = @ \ ClearedByDestroy]

\* the number of instances created so far
Created == Cardinality({ i \in 1..MaxInstances : inst[i].init # "none" })

LifecycleConstructed ==
    /\ timelineManagerInstance = None
    /\ initTimerId = FALSE
    /\ conversationRoute = TRUE
    /\ inst = [i \in 1..MaxInstances |-> NoInstance]

(***************************************************************************)
(* Tooltip placement and text fit                                          *)
(***************************************************************************)
MaxText == 5
Space == 32
Ellipsis == <<8230>>
viewportPad == 8
minW == 160
tiers == <<280, 240, 200, 160>>

\* tiers.find(t => t <= hardMax) from index i on; 0 stands for undefined
RECURSIVE TierFrom(_, _)
TierFrom(i, hardMax) ==
    IF i > Len(tiers) THEN 0
    ELSE IF tiers[i] <= hardMax THEN tiers[i] ELSE TierFrom(i + 1, hardMax)

\* a || b on numbers
OrElse(a, b) == IF a # 0 THEN a ELSE b

ChooseSideLeft(leftAvail, rightAvail) == "left"

\* let placement = (rightAvail > leftAvail) ? 'right' : 'left'
ChooseSide(leftAvail, rightAvail) == IF rightAvail > leftAvail THEN "right" ELSE "left"

\* const gap = baseGap + Math.max(0, arrowOut) + Math.max(0, boxGap)
Gap(style) == style.baseGap + Max(0, style.arrowOut) + Max(0, style.boxGap)
LeftAvail(rect, style) == Max(0, rect.left - Gap(style) - viewportPad)
RightAvail(rect, vw, style) == Max(0, vw - rect.right - Gap(style) - viewportPad)

computePlacementInfo(rect, vw, style) ==
    LET maxW == style.maxW
        leftAvail == LeftAvail(rect, style)
        rightAvail == RightAvail(rect, vw, style)
        placement == ChooseSide(leftAvail, rightAvail)
        avail == IF placement = "right" THEN rightAvail ELSE leftAvail
        hardMax == Max(minW, Min(maxW, avail))
        width == OrElse(TierFrom(1, hardMax), Max(minW, Min(hardMax, 160)))
        Retry(av) == LET hardMax2 == Max(minW, Min(maxW, av))
                     IN  OrElse(TierFrom(1, hardMax2), Max(120, Min(hardMax2, minW)))
        r == IF width < minW /\ placement = "left" /\ rightAvail > leftAvail
             THEN [placement |-> "right", width |-> Retry(rightAvail)]
             ELSE IF width < minW /\ placement = "right" /\ leftAvail >= rightAvail
             THEN [placement |-> "left", width |-> Retry(leftAvail)]
             ELSE [placement |-> placement, width |-> width]
    IN  [placement |-> r.placement, width |-> Max(120, Min(r.width, maxW))]

\* replace(/\s+/g, ' ') from index i on, with the output so far
RECURSIVE Collapse(_, _, _)
Collapse(str, i, out) ==
    IF i > Len(str) THEN out
    ELSE IF str[i] = Space /\ Len(out) > 0 /\ out[Len(out)] = Space
    THEN Collapse(str, i + 1, out)
    ELSE Collapse(str, i + 1, Append(out, str[i]))

RECURSIVE TrimEnd(_)
TrimEnd(str) ==
    IF Len(str) > 0 /\ str[Len(str)] = Space THEN TrimEnd(SubSeq(str, 1, Len(str) - 1)) ELSE str

RECURSIVE TrimStart(_)
TrimStart(str) == IF Len(str) > 0 /\ str[1] = Space THEN TrimStart(Tail(str)) ELSE str

\* String(text || '').replace(/\s+/g, ' ').trim()
Normalize(text) == TrimEnd(TrimStart(Collapse(text, 1, <<>>)))

\* el.offsetHeight with el.style.width = width and el.textContent = content: the
\* characters fill lines of width \div glyphW characters (one at least)
offsetHeight(content, width, el) ==
    LET perLine == Max(1, width \div el.glyphW)
        lines == (Len(content) + perLine - 1) \div perLine
    IN  lines * el.lineH + el.padBorder

\* const maxH = Math.round(3 * lineH + 2 * padY + 2 * borderW)
maxH(style) == 3 * style.lineH + 2 * style.padY + 2 * style.borderW

\* a search that stops at its first midpoint
BinarySearchOnce(raw, lo, hi, ans, width, el, box) == (lo + hi) \div 2

\* the while loop of truncateToThreeLines
RECURSIVE BinarySearch(_, _, _, _, _, _, _)
BinarySearch(raw, lo, hi, ans, width, el, box) ==
    IF lo > hi THEN ans
    ELSE LET mid == (lo + hi) \div 2
             h == offsetHeight(TrimEnd(SubSeq(raw, 1, mid)) \o Ellipsis, width, el)
         IN  IF h <= box
             THEN BinarySearch(raw, mid + 1, hi, mid, width, el, box)
             ELSE BinarySearch(raw, lo, mid - 1, ans, width, el, box)

\* truncateToThreeLines(text, targetWidth, true) with the measurer and the tooltip in place
truncateToThreeLines(text, targetWidth, style, el) ==
    LET box == maxH(style)
        width == Max(0, targetWidth)
        raw == Normalize(text)
        h == offsetHeight(raw, width, el)
    IN  IF h <= box
        THEN [text |-> raw, height |-> h]
        ELSE LET ans == BinarySearch(raw, 0, Len(raw), 0, width, el, box)
                 out == IF ans >= Len(raw) THEN raw
                        ELSE TrimEnd(SubSeq(raw, 1, ans)) \o Ellipsis
             IN  [text |-> out, height |-> Min(offsetHeight(out, width, el), box)]

NoRect == [left |-> 0, right |-> 0]
NoTooltip == [placement |-> "none", width |-> 0, text |-> <<>>, height |-> 0]

\* the tooltip's variables at their fallbacks, a measurer of 80px characters
DefaultStyle == [arrowOut |-> 6, baseGap |-> 12, boxGap |-> 8, maxW |-> 288,
                 lineH |-> 18, padY |-> 10, borderW |-> 1]
DefaultMeasure == [glyphW |-> 80, lineH |-> 18, padBorder |-> 22]

TooltipConstructed ==
    /\ innerWidth = 400
    /\ tipStyle = DefaultStyle
    /\ measureEl = DefaultMeasure
    /\ dotRect = NoRect
    /\ fullText = <<>>
    /\ tooltip = NoTooltip

IdentityConstructed ==
    /\ fingerprintToTurnId = <<>>
    /\ fingerprintMapDirty = FALSE
    /\ persistTimer = FALSE
    /\ lsMessageIds = NoItem
    /\ lsWritten = FALSE
    /\ ret = NoRet
    /\ issued = [id |-> Undefined, here |-> FALSE]
    /\ held = FALSE
    /\ fault = NoFault

Init ==
    /\ IdentityConstructed
    /\ GeometryConstructed(0, 24, 24)
    /\ ActiveConstructed
    /\ GapConstructed
    /\ StarsConstructed
    /\ LifecycleConstructed
    /\ TooltipConstructed

\* annotateAllMessages reaching one new node: ensureMessageId(el) at Date.now() = t
AnnotateNode(el, t) ==
    LET r == ensureMessageId(el, fingerprintToTurnId, t)
        fp == FingerprintOf[el]
    IN  /\ fingerprintToTurnId' = r.map
        /\ fingerprintMapDirty' = (fingerprintMapDirty \/ r.inserted)
        /\ persistTimer' = (persistTimer \/ r.inserted)
        /\ UNCHANGED <<lsMessageIds, lsWritten>>
        /\ IF el.attr = <<>> /\ fp = Watched
           THEN /\ ret' = [id |-> r.id, prev |-> issued.id,
                           held |-> held, here |-> issued.here, faulted |-> fault.ever]
                /\ issued' = [id |-> r.id, here |-> TRUE]
                /\ held' = TRUE
           ELSE /\ ret' = NoRet
                /\ issued' = issued
                /\ held' = (held /\ MapHas(r.map, Watched))
        /\ fault' = [fault EXCEPT !.now = "none", !.before = <<>>]
        /\ UNCHANGED outsideIdentity

\* the timeout of persistFingerprintMapDebounced fires: persistFingerprintMap(false)
PersistTimerFire(ok) ==
    /\ persistTimer
    /\ persistTimer' = FALSE
    /\ persistFingerprintMap(FALSE, ok)
    /\ fault' = IF fingerprintMapDirty /\ ~ok
                THEN [now |-> "write", before |-> fingerprintToTurnId, ever |-> TRUE]
                ELSE [fault EXCEPT !.now = "none", !.before = <<>>]
    /\ UNCHANGED <<fingerprintToTurnId, ret, issued, held>>
    /\ UNCHANGED outsideIdentity

\* a fresh instance: constructor, then init() up to its await (loadMessageIdMap)
FreshInstance(raw) ==
    /\ fingerprintToTurnId' = loadMessageIdMap(raw)
    /\ persistTimer' = FALSE
    /\ ret' = NoRet
    /\ issued' = [issued EXCEPT !.here = FALSE]
    /\ held' = (held /\ <<Watched, issued.id>> \in StoredPairs(raw))
    /\ fault' = NoFault
    /\ UNCHANGED outsideIdentity

\* initializeTimeline: destroy() (persistFingerprintMap(true), index cleared), then a fresh instance
Reinitialize(ok) ==
    /\ lsMessageIds' = IF ok THEN PersistedEntries(fingerprintToTurnId) ELSE lsMessageIds
    /\ lsWritten' = (ok \/ lsWritten)
    /\ fingerprintMapDirty' = FALSE
    /\ FreshInstance(lsMessageIds')

\* the page is reloaded: the instance is lost without destroy(), the next one loads the store
PageReload ==
    /\ fingerprintMapDirty' = FALSE
    /\ UNCHANGED <<lsMessageIds, lsWritten>>
    /\ FreshInstance(lsMessageIds)

Next ==
    \/ \E el \in Anchors, t \in Clock : AnnotateNode(el, t)
    \/ \E ok \in BOOLEAN : PersistTimerFire(ok)
    \/ \E ok \in BOOLEAN : Reinitialize(ok)
    \/ PageReload

Spec == Init /\ [][Next]_vars

(***************************************************************************)
(* The ids of the markers.  recalculateAndRenderMarkers runs               *)
(* annotateAllMessages (724), which resolves an id for every message       *)
(* element and writes it to el.dataset.turnId (259-262), and then builds   *)
(* one marker per user turn with that id (758-774).  The elements are the  *)
(* ones of a conversation just rendered: none has a data-turn-id yet.      *)
(***************************************************************************)
MaxBuilt == 2

\* the user turns a conversation can hold, none with an id of the page's own (the ids
\* a page gives its elements are distinct); two elements can have the same content
TurnLists == UNION { [1..n -> { a \in Anchors : a.attr = <<>> }] : n \in 1..MaxBuilt }

\* one iteration of the loop of annotateAllMessages (255-262): the result r of
\* ensureMessageId is added to what the loop has done so far
Annotated(done, r) ==
    [map |-> r.map, ids |-> Append(done.ids, r.id), inserted |-> (done.inserted \/ r.inserted)]

\* ensureMessageId(el) on the index the earlier iterations left
AnnotateNext(el, done, t) == Annotated(done, ensureMessageId(el, done.map, t))

\* the loop of annotateAllMessages (253-263): the index after it, the ids written in
\* document order and whether an entry was inserted; pass[i] is the state after element i
annotateAllMessages(els, m, t) ==
    LET pass[i \in 0..Len(els)] ==
            IF i = 0 THEN [map |-> m, ids |-> <<>>, inserted |-> FALSE]
            ELSE AnnotateNext(els[i], pass[i - 1], t)
    IN  pass[Len(els)]

\* this.markers after annotateAllMessages gave r: the ids are the elements'
\* dataset.turnId in document order, the flags are this.starred.has(id) (769)
Rebuilt(els, r) ==
    /\ fingerprintToTurnId' = r.map
    /\ fingerprintMapDirty' = (fingerprintMapDirty \/ r.inserted)
    /\ persistTimer' = (persistTimer \/ r.inserted)
    /\ turnEls' = els
    /\ builtIds' = r.ids
    /\ builtStarred' = StarredOf(r.ids, starred)
    /\ UNCHANGED <<lsMessageIds, lsWritten, histVars>>
    /\ UNCHANGED <<domVars, geoVars, actVars, starVars, lifeVars, tipVars, syncVars, schedVars, liveVars, pressVars, raceVars, gapVars>>

\* recalculateAndRenderMarkers over the user turns els at Date.now() = t
RebuildIds(els, t) == Rebuilt(els, annotateAllMessages(els, fingerprintToTurnId, t))

\* the page is reloaded over the stored index: the next instance has built nothing yet
BuildReload ==
    /\ fingerprintToTurnId' = loadMessageIdMap(lsMessageIds)
    /\ fingerprintMapDirty' = FALSE
    /\ persistTimer' = FALSE
    /\ turnEls' = <<>>
    /\ builtIds' = <<>>
    /\ builtStarred' = <<>>
    /\ UNCHANGED <<lsMessageIds, lsWritten, histVars>>
    /\ UNCHANGED <<domVars, geoVars, actVars, starVars, lifeVars, tipVars, syncVars, schedVars, liveVars, pressVars, raceVars, gapVars>>

NextBuild ==
    \/ \E els \in TurnLists, t \in Clock : RebuildIds(els, t)
    \/ BuildReload

SpecBuild == Init /\ [][NextBuild]_vars

(***************************************************************************)
(* The store of the Identity Index under two instances.  initializeTimeline*)
(* destroys the instance it holds and creates the next; init() of an       *)
(* instance loads the index and then awaits findCriticalElements, whose    *)
(* continuation annotates the messages (152) and attaches the observers,   *)
(* also when destroy() has run in between.  The store accepts every read   *)
(* and write, and is empty when the page session starts.                   *)
(***************************************************************************)
\* the elements a run of annotateAllMessages can find without an id yet: none or one
RaceLists == {<<>>} \cup { <<a>> : a \in { el \in Anchors : el.attr = <<>> } }

\* Date.now() at the resolutions: the ids of the fallback are those of one millisecond
RaceClock == {0}

outsideRace == <<histVars, domVars, geoVars, actVars, starVars, lifeVars, tipVars, syncVars, schedVars,
                 buildVars, liveVars, pressVars, gapVars>>

\* the pairs of the index m, and the pairs persistFingerprintMap writes for it
WrittenPairs(m) == StoredPairs(PersistedEntries(m))

\* the history of a write of the index m by who: the pairs the store held that the
\* write did not put back, other than those eviction removed
WriteOf(who, m, gone) ==
    [by |-> who, dropped |-> (StoredPairs(lsMessageIds) \ WrittenPairs(m)) \ gone]

\* the instance the entry point holds takes the result r of annotateAllMessages (152)
\* and attaches its observers
RaceAnnotated(r) ==
    /\ curInit = "awaiting"
    /\ curInit' = "attached"
    /\ fingerprintToTurnId' = r.map
    /\ fingerprintMapDirty' = (fingerprintMapDirty \/ r.inserted)
    /\ persistTimer' = (persistTimer \/ r.inserted)
    /\ evicted' = evicted \cup (Range(fingerprintToTurnId) \ Range(r.map))
    /\ UNCHANGED <<lsMessageIds, lsWritten, prevInit, prevIndex, prevDirty, prevTimer, lastWrite>>
    /\ UNCHANGED outsideRace

\* the continuation of init() of the instance the entry point holds: annotateAllMessages
\* over els (152), then the observers are attached
RaceResume(els, t) == RaceAnnotated(annotateAllMessages(els, fingerprintToTurnId, t))

\* the MutationObserver of the attached instance: ensureMessageId(el)
RaceResolve(el, t) ==
    LET r == ensureMessageId(el, fingerprintToTurnId, t)
    IN  /\ curInit = "attached"
        /\ fingerprintToTurnId' = r.map
        /\ fingerprintMapDirty' = (fingerprintMapDirty \/ r.inserted)
        /\ persistTimer' = (persistTimer \/ r.inserted)
        /\ evicted' = evicted \cup (Range(fingerprintToTurnId) \ Range(r.map))
        /\ UNCHANGED <<lsMessageIds, lsWritten, curInit, prevInit, prevIndex, prevDirty, prevTimer,
                       lastWrite>>
        /\ UNCHANGED outsideRace

\* the debounced flush of the instance the entry point holds: persistFingerprintMap(false)
RaceFlush ==
    /\ persistTimer
    /\ persistTimer' = FALSE
    /\ IF fingerprintMapDirty
       THEN /\ lsMessageIds' = PersistedEntries(fingerprintToTurnId)
            /\ lsWritten' = TRUE
            /\ fingerprintMapDirty' = FALSE
            /\ evicted' = evicted \cup (Range(fingerprintToTurnId) \ WrittenPairs(fingerprintToTurnId))
            /\ lastWrite' = WriteOf("flush", fingerprintToTurnId, evicted')
       ELSE UNCHANGED <<lsMessageIds, lsWritten, fingerprintMapDirty, evicted, lastWrite>>
    /\ UNCHANGED <<fingerprintToTurnId, curInit, prevInit, prevIndex, prevDirty, prevTimer>>
    /\ UNCHANGED outsideRace

\* initializeTimeline: destroy() of the instance it holds (persistFingerprintMap(true),
\* then the index is cleared; the debounce timeout and a pending init() are left), and
\* the next instance up to the await of its init().  One destroyed instance is
\* followed: the one before it has returned from init() and holds no timeout.
RaceInitialize ==
    /\ prevInit = "none"
    /\ ~prevTimer
    /\ lsMessageIds' = PersistedEntries(fingerprintToTurnId)
    /\ lsWritten' = TRUE
    /\ evicted' = evicted \cup (Range(fingerprintToTurnId) \ WrittenPairs(fingerprintToTurnId))
    /\ lastWrite' = WriteOf("destroy", fingerprintToTurnId, evicted')
    /\ prevInit' = IF curInit = "awaiting" THEN "awaiting" ELSE "none"
    /\ prevIndex' = <<>>
    /\ prevDirty' = FALSE
    /\ prevTimer' = persistTimer
    /\ curInit' = "awaiting"
    /\ fingerprintToTurnId' = loadMessageIdMap(lsMessageIds')
    /\ fingerprintMapDirty' = FALSE
    /\ persistTimer' = FALSE
    /\ UNCHANGED outsideRace

\* the destroyed instance takes the result r of annotateAllMessages and attaches its
\* observers
PrevAnnotated(r) ==
    /\ prevInit = "awaiting"
    /\ prevInit' = "attached"
    /\ prevIndex' = r.map
    /\ prevDirty' = (prevDirty \/ r.inserted)
    /\ prevTimer' = (prevTimer \/ r.inserted)
    /\ evicted' = evicted \cup (Range(prevIndex) \ Range(r.map))
    /\ UNCHANGED <<idVars, curInit, lastWrite>>
    /\ UNCHANGED outsideRace

\* the continuation of init() of the destroyed instance: annotateAllMessages over els
\* on the index destroy() cleared, then its observers are attached
PrevResume(els, t) == PrevAnnotated(annotateAllMessages(els, prevIndex, t))

\* the debounced flush of the destroyed instance
PrevFlush ==
    /\ prevTimer
    /\ prevTimer' = FALSE
    /\ IF prevDirty
       THEN /\ lsMessageIds' = PersistedEntries(prevIndex)
            /\ lsWritten' = TRUE
            /\ prevDirty' = FALSE
            /\ evicted' = evicted \cup (Range(prevIndex) \ WrittenPairs(prevIndex))
            /\ lastWrite' = WriteOf("late", prevIndex, evicted')
       ELSE UNCHANGED <<lsMessageIds, lsWritten, prevDirty, evicted, lastWrite>>
    /\ UNCHANGED <<fingerprintToTurnId, fingerprintMapDirty, persistTimer, curInit, prevInit, prevIndex>>
    /\ UNCHANGED outsideRace

InitRace == Init

NextRace ==
    \/ \E els \in RaceLists, t \in RaceClock : RaceResume(els, t)
    \/ \E el \in Anchors, t \in RaceClock : RaceResolve(el, t)
    \/ RaceFlush
    \/ RaceInitialize
    \/ \E els \in RaceLists, t \in RaceClock : PrevResume(els, t)
    \/ PrevFlush

SpecRace == InitRace /\ [][NextRace]_vars

(***************************************************************************)
(* The Identity Index started over any stored item: the first instance     *)
(* finds what some other writer left under the key.                        *)
(***************************************************************************)
ForeignKey(i) == <<102, 48 + i>>                      \* "f1", "f2", ...
ForeignId(i) == <<120, 48 + i>>                       \* "x1", "x2", ...

\* an array of valid pairs, one more than fingerprintMapLimit
OversizedArray ==
    JArr([i \in 1..(fingerprintMapLimit + 1) |-> JArr(<<JStr(ForeignKey(i)), JStr(ForeignId(i))>>)])

\* an array whose entries are a short array, a number, a pair with a number for id,
\* and a valid pair followed by a third item
MixedArray ==
    JArr(<< JArr(<<JStr(ForeignKey(1))>>), JNum(3),
            JArr(<<JStr(ForeignKey(1)), JNum(1)>>),
            JArr(<<JStr(ForeignKey(2)), JStr(ForeignId(2)), JStr(ForeignId(3))>>) >>)

\* the older object form, with one value that is no string
ObjectForm ==
    JObj(<< <<ForeignKey(1), JStr(ForeignId(1))>>, <<ForeignKey(2), JNum(7)>> >>)

StoredItems == { NoItem, NotJson, JStr(ForeignId(1)), OversizedArray, MixedArray, ObjectForm }

InitStore ==
    /\ lsMessageIds \in StoredItems
    /\ lsWritten = FALSE
    /\ fingerprintToTurnId = loadMessageIdMap(lsMessageIds)
    /\ fingerprintMapDirty = FALSE
    /\ persistTimer = FALSE
    /\ ret = NoRet
    /\ issued = [id |-> Undefined, here |-> FALSE]
    /\ held = FALSE
    /\ fault = NoFault
    /\ GeometryConstructed(0, 24, 24)
    /\ ActiveConstructed
    /\ GapConstructed
    /\ StarsConstructed
    /\ LifecycleConstructed
    /\ TooltipConstructed

SpecStore == InitStore /\ [][Next]_vars

(***************************************************************************)
(* The Identity Index over a store that accepts every write, in a page     *)
(* that stays open: the timeout of persistFingerprintMapDebounced is a     *)
(* pending setTimeout, which the event loop runs once its 800ms are over,  *)
(* so the step that fires it is weakly fair.  A new insertion re-arms the  *)
(* timeout; the model has no clock, and takes the flush to come in the end *)
(* as it does 800ms after the last insertion.                              *)
(***************************************************************************)
NextFlush ==
    \/ \E el \in Anchors, t \in Clock : AnnotateNode(el, t)
    \/ PersistTimerFire(TRUE)
    \/ Reinitialize(TRUE)

SpecFlush == Init /\ [][NextFlush]_vars /\ WF_vars(PersistTimerFire(TRUE))

(***************************************************************************)
(* The Identity Index of a first instance whose localStorage.getItem       *)
(* threw: loadMessageIdMap has cleared the index and its catch has         *)
(* swallowed the exception, whether the key holds an item or not.          *)
(***************************************************************************)
InitFault ==
    /\ lsMessageIds \in {NoItem, OversizedArray}
    /\ lsWritten = FALSE
    /\ fingerprintToTurnId = loadMessageIdMap(GetItemThrows)
    /\ fingerprintMapDirty = FALSE
    /\ persistTimer = FALSE
    /\ ret = NoRet
    /\ issued = [id |-> Undefined, here |-> FALSE]
    /\ held = FALSE
    /\ fault = [now |-> "read", before |-> <<>>, ever |-> TRUE]
    /\ GeometryConstructed(0, 24, 24)
    /\ ActiveConstructed
    /\ GapConstructed
    /\ StarsConstructed
    /\ LifecycleConstructed
    /\ TooltipConstructed

SpecFault == InitFault /\ [][Next]_vars

(***************************************************************************)
(* Both stores as any writer may leave them (another tab, another version, *)
(* the user), read by a fresh instance: init() calls loadMessageIdMap and  *)
(* loadStars.                                                              *)
(***************************************************************************)
\* items under the stars key: absent, no JSON, a string, an object, an array of ids,
\* and an array holding a number, null and the same id twice
StoredStarItems ==
    { NoItem, NotJson, JStr(<<97>>), JObj(<< <<<<97>>, JStr(<<49>>)>> >>),
      JArr(<<JStr(<<97>>)>>),
      JArr(<<JNum(1), JNull, JStr(<<97>>), JStr(<<97>>)>>) }

\* some writer replaces both items
StoresLeft(item, stars) ==
    /\ lsMessageIds' = item
    /\ lsStars' = stars
    /\ lsWritten' = FALSE
    /\ UNCHANGED <<fingerprintToTurnId, fingerprintMapDirty, persistTimer, histVars>>
    /\ UNCHANGED <<starred, markerStarred, storageEvent, twice>>
    /\ UNCHANGED <<domVars, geoVars, actVars, lifeVars, tipVars, syncVars, schedVars, buildVars, liveVars, pressVars, raceVars, gapVars>>

\* the page is opened: a fresh instance, init() up to its await, then the markers are built
OpenPage ==
    /\ fingerprintToTurnId' = loadMessageIdMap(lsMessageIds)
    /\ fingerprintMapDirty' = FALSE
    /\ persistTimer' = FALSE
    /\ starred' = loadStars(lsStars)
    /\ markerStarred' = FlagsOf(starred')
    /\ UNCHANGED <<lsMessageIds, lsWritten, histVars>>
    /\ UNCHANGED <<lsStars, storageEvent, twice>>
    /\ UNCHANGED <<domVars, geoVars, actVars, lifeVars, tipVars, syncVars, schedVars, buildVars, liveVars, pressVars, raceVars, gapVars>>

InitLoad ==
    /\ lsMessageIds \in StoredItems
    /\ lsStars \in StoredStarItems
    /\ lsWritten = FALSE
    /\ fingerprintToTurnId = <<>>
    /\ fingerprintMapDirty = FALSE
    /\ persistTimer = FALSE
    /\ ret = NoRet
    /\ issued = [id |-> Undefined, here |-> FALSE]
    /\ held = FALSE
    /\ fault = NoFault
    /\ starred = <<>>
    /\ markerStarred = FlagsOf(<<>>)
    /\ storageEvent = NoEvent
    /\ twice = NoToggle
    /\ GeometryConstructed(0, 24, 24)
    /\ ActiveConstructed
    /\ GapConstructed
    /\ LifecycleConstructed
    /\ TooltipConstructed

NextLoad ==
    \/ \E item \in StoredItems, stars \in StoredStarItems : StoresLeft(item, stars)
    \/ OpenPage

SpecLoad == InitLoad /\ [][NextLoad]_vars

(***************************************************************************)
(* Layout: the handlers                                                    *)
(***************************************************************************)
\* updateTimelineGeometry(); syncTimelineTrackToMain(); updateVirtualRangeAndRender()
\* over the markers ms holding the elements dots, with visibleRange read as prev, and
\* with the track at scrollTop st and clientHeight vh afterwards
LayOut(ms, dots, prev, span, st, vh) ==
    LET g == updateTimelineGeometry(ms, span, barHeight', trackPadding, minGap)
    IN  /\ contentHeight' = g.contentHeight
        /\ yPositions' = g.yPositions
        /\ IF Len(ms) = 0
           THEN UNCHANGED <<visibleRange, viewport, dotElement>>
           ELSE /\ visibleRange' = VirtualRange(g.yPositions, span, st, vh)
                /\ viewport' = [st |-> st, vh |-> vh, fresh |-> TRUE,
                                diffed |-> Diffed(dots, prev, visibleRange')]
                /\ dotElement' = RenderPass(dots, prev, visibleRange')

\* this.markersVersion++ left out
SameVersion(v) == v

\* this.markersVersion++
NextVersion(v) == v + 1

\* the rebuild without updateTimelineGeometry(): the pass runs over the old yPositions
recalculateWithoutGeometry(st, vh) ==
    IF Len(offsetTops') = 0
    THEN /\ visibleRange' = [start |-> 0, end |-> -1]
         /\ viewport' = NoViewport
         /\ zeroTurnsTimer' = TRUE
         /\ UNCHANGED <<markers, markersVersion, dotElement, contentSpanPx, contentHeight,
                        yPositions>>
    ELSE LET b == BuildMarkers(offsetTops')
             fresh == [i \in 1..Len(b.markers) |-> NoDot]
         IN  /\ markersVersion < MaxVersion
             /\ zeroTurnsTimer' = FALSE
             /\ markers' = b.markers
             /\ markersVersion' = NextVersion(markersVersion)
             /\ contentSpanPx' = b.contentSpanPx
             /\ UNCHANGED <<contentHeight, yPositions>>
             /\ visibleRange' = VirtualRange(yPositions, b.contentSpanPx, st, vh)
             /\ viewport' = [st |-> st, vh |-> vh, fresh |-> TRUE, diffed |-> FALSE]
             /\ dotElement' = [i \in 1..Len(fresh) |->
                                 IF InRange(i - 1, visibleRange') THEN NewDot(NoDot) ELSE NoDot]

recalculateAndRenderMarkers(st, vh) ==
    IF Len(offsetTops') = 0
    THEN /\ visibleRange' = [start |-> 0, end |-> -1]
         /\ viewport' = NoViewport
         /\ zeroTurnsTimer' = TRUE
         /\ UNCHANGED <<markers, markersVersion, dotElement, contentSpanPx, contentHeight,
                        yPositions>>
    ELSE LET b == BuildMarkers(offsetTops')
         IN  /\ markersVersion < MaxVersion
             /\ zeroTurnsTimer' = FALSE
             /\ markers' = b.markers
             /\ markersVersion' = NextVersion(markersVersion)
             /\ contentSpanPx' = b.contentSpanPx
             /\ LayOut(b.markers, [i \in 1..Len(b.markers) |-> NoDot],
                       [start |-> 0, end |-> -1], b.contentSpanPx, st, vh)

\* A user turn is added to the conversation and the debounce armed by the
\* MutationObserver has fired.  Until it fires the instance is as it was before the
\* mutation, so the step is taken as one.
AppendTurn(top, st, vh) ==
    /\ uiTrack
    /\ Len(offsetTops) < MaxMarkers
    /\ UNCHANGED uiTrack
    /\ offsetTops' = Append(offsetTops, top)
    /\ UNCHANGED <<barHeight, trackPadding, minGap>>
    /\ recalculateAndRenderMarkers(st, vh)
    /\ UNCHANGED outsideGeometry

\* the conversation is emptied (branch switch), and the debounce has fired
RemoveTurns(st, vh) ==
    /\ uiTrack
    /\ Len(offsetTops) > 0
    /\ UNCHANGED uiTrack
    /\ offsetTops' = <<>>
    /\ UNCHANGED <<barHeight, trackPadding, minGap>>
    /\ recalculateAndRenderMarkers(st, vh)
    /\ UNCHANGED outsideGeometry

\* The conversation changes with its user turns as they were (an answer streams
\* in), and the debounce has fired.
ContentChange(st, vh) ==
    /\ uiTrack
    /\ UNCHANGED domVars
    /\ UNCHANGED uiTrack
    /\ recalculateAndRenderMarkers(st, vh)
    /\ UNCHANGED outsideGeometry

\* the zero-turn retry fires
ZeroTurnsTimerFire(st, vh) ==
    /\ uiTrack
    /\ zeroTurnsTimer
    /\ UNCHANGED uiTrack
    /\ UNCHANGED domVars
    /\ recalculateAndRenderMarkers(st, vh)
    /\ UNCHANGED outsideGeometry

\* the bar is resized: ResizeObserver, onWindowResize, onVisualViewportResize
ResizeBar(h, st, vh) ==
    /\ uiTrack
    /\ barHeight' = h
    /\ UNCHANGED uiTrack
    /\ UNCHANGED <<offsetTops, trackPadding, minGap, zeroTurnsTimer, markers, markersVersion,
                   contentSpanPx>>
    /\ LayOut(markers, dotElement, visibleRange, contentSpanPx, st, vh)
    /\ UNCHANGED outsideGeometry

\* updateVirtualRangeAndRender goes past its first return and reads yPositions
PassReads == uiTrack /\ Len(markers) > 0

\* destroy(): the bar is removed and this.markers emptied; yPositions, visibleRange
\* and the other layout fields are left as they were
DestroyBar ==
    /\ uiTrack
    /\ uiTrack' = FALSE
    /\ markers' = <<>>
    /\ dotElement' = <<>>
    /\ UNCHANGED <<domVars, zeroTurnsTimer, markersVersion, contentSpanPx, contentHeight,
                   yPositions, visibleRange, viewport>>
    /\ UNCHANGED outsideGeometry

\* the scroll frame, or a slider drag: updateVirtualRangeAndRender alone
ScrollSync(st, vh) ==
    /\ PassReads
    /\ UNCHANGED uiTrack
    /\ visibleRange' = VirtualRange(yPositions, contentSpanPx, st, vh)
    /\ viewport' = [st |-> st, vh |-> vh, fresh |-> TRUE,
                    diffed |-> Diffed(dotElement, visibleRange, visibleRange')]
    /\ dotElement' = RenderPass(dotElement, visibleRange, visibleRange')
    /\ UNCHANGED <<domVars, zeroTurnsTimer, markers, markersVersion, contentSpanPx,
                   contentHeight, yPositions>>
    /\ UNCHANGED outsideGeometry

InitGeometry ==
    /\ IdentityConstructed
    /\ ActiveConstructed
    /\ GapConstructed
    /\ StarsConstructed
    /\ LifecycleConstructed
    /\ TooltipConstructed
    /\ \E style \in TrackStyles : GeometryConstructed(0, style.pad, style.gap)

NextGeometry ==
    \/ \E top \in OffsetTops, st \in ScrollTops, vh \in TrackHeights :
          AppendTurn(top, st, vh) /\ UNCHANGED syncVars
    \/ \E st \in ScrollTops, vh \in TrackHeights : RemoveTurns(st, vh) /\ UNCHANGED syncVars
    \/ \E st \in ScrollTops, vh \in TrackHeights : ContentChange(st, vh) /\ UNCHANGED syncVars
    \/ \E st \in ScrollTops, vh \in TrackHeights :
          ZeroTurnsTimerFire(st, vh) /\ UNCHANGED syncVars
    \/ \E h \in BarHeights, st \in ScrollTops, vh \in TrackHeights :
          ResizeBar(h, st, vh) /\ UNCHANGED syncVars
    \/ \E st \in ScrollTops, vh \in TrackHeights : ScrollSync(st, vh) /\ UNCHANGED syncVars

SpecGeometry == InitGeometry /\ [][NextGeometry]_vars

(***************************************************************************)
(* applyMinGap as a function: it is called on any positions, bounds and    *)
(* gap, and then on its own result.  Positions are integers here; the      *)
(* code computes in IEEE doubles, whose rounding is outside the model.     *)
(***************************************************************************)
MaxGapLen == 3
MaxGapTop == 4

GapCalls ==
    [positions : UNION { [1..n -> -1..(MaxGapTop + 1)] : n \in 0..MaxGapLen },
     minTop : 0..1, maxTop : 0..MaxGapTop, gap : -1..2]

outsideGap == <<idVars, histVars, domVars, geoVars, actVars, starVars, lifeVars, tipVars, syncVars,
                schedVars, buildVars, liveVars, pressVars, raceVars>>

\* applyMinGap(positions, minTop, maxTop, gap)
CallApplyMinGap ==
    /\ gapRuns = 0
    /\ gapOut' = applyMinGap(gapIn.positions, gapIn.minTop, gapIn.maxTop, gapIn.gap)
    /\ gapRuns' = 1
    /\ UNCHANGED <<gapIn, gapAgain>>
    /\ UNCHANGED outsideGap

\* applyMinGap on what the first call returned
CallApplyMinGapAgain ==
    /\ gapRuns = 1
    /\ gapAgain' = applyMinGap(gapOut, gapIn.minTop, gapIn.maxTop, gapIn.gap)
    /\ gapRuns' = 2
    /\ UNCHANGED <<gapIn, gapOut>>
    /\ UNCHANGED outsideGap

InitMinGap ==
    /\ IdentityConstructed
    /\ GeometryConstructed(0, 24, 24)
    /\ ActiveConstructed
    /\ StarsConstructed
    /\ LifecycleConstructed
    /\ TooltipConstructed
    /\ gapIn \in GapCalls
    /\ gapOut = <<>>
    /\ gapAgain = <<>>
    /\ gapRuns = 0

NextMinGap ==
    \/ CallApplyMinGap
    \/ CallApplyMinGapAgain

SpecMinGap == InitMinGap /\ [][NextMinGap]_vars

\* the layout with the teardown of the instance
NextTeardown ==
    \/ \E top \in OffsetTops, st \in ScrollTops, vh \in TrackHeights :
          AppendTurn(top, st, vh) /\ UNCHANGED syncVars
    \/ \E st \in ScrollTops, vh \in TrackHeights : RemoveTurns(st, vh) /\ UNCHANGED syncVars
    \/ \E st \in ScrollTops, vh \in TrackHeights : ContentChange(st, vh) /\ UNCHANGED syncVars
    \/ \E st \in ScrollTops, vh \in TrackHeights :
          ZeroTurnsTimerFire(st, vh) /\ UNCHANGED syncVars
    \/ \E h \in BarHeights, st \in ScrollTops, vh \in TrackHeights :
          ResizeBar(h, st, vh) /\ UNCHANGED syncVars
    \/ \E st \in ScrollTops, vh \in TrackHeights : ScrollSync(st, vh) /\ UNCHANGED syncVars
    \/ DestroyBar /\ UNCHANGED syncVars

SpecTeardown == InitGeometry /\ [][NextTeardown]_vars

(***************************************************************************)
(* Scroll Synchronizer: the handlers of the layout with the track's offset *)
(* computed, and the slider drag                                           *)
(***************************************************************************)
\* the user turns followed in the behaviours of the Scroll Synchronizer
SyncMaxMarkers == 2

SyncTops == {0, 400}                 \* px
SyncStyles == { [pad |-> 0, gap |-> 301] }
MainScrollTops == {0, 110}           \* scrollContainer.scrollTop, px
MainHeights == {200}                 \* scrollContainer.clientHeight, px
SyncBarHeights == {40, 500}          \* px
\* top / maxTop of the slider handle under the pointer, as <<numerator, denominator>>
SliderRatios == { <<0, 1>>, <<1, 2>>, <<1, 1>> }

Abs(x) == IF x < 0 THEN -x ELSE x

\* track.scrollTop as the browser keeps it, within 0 .. scrollHeight - clientHeight:
\* the track's content is trackContent (653-657), of height contentHeight (1403, here
\* in half pixels), and th is the track's clientHeight
DomClamp(x, height, th) == Max(0, Min(x, Max(0, height \div 2 - th)))

\* Math.round(a / b) for a >= 0 and b > 0
RoundDiv(a, b) == (2 * a + b) \div (2 * b)

\* the early return on this.sliderDragging left out
syncIgnoringDrag(cur, dragging, height, s, mainH, first, span, th) ==
    IF height = 0
    THEN [computed |-> FALSE, wrote |-> FALSE, target |-> 0, after |-> cur]
    ELSE LET den == 20 * Max(1, span)
             r == Max(0, Min(den, 20 * s + 9 * mainH - 20 * first))
             maxScroll == Max(0, height \div 2 - th)
             target == RoundDiv(r * maxScroll, den)
             write == Abs(cur - target) > 1
         IN  [computed |-> TRUE, wrote |-> write, target |-> target,
              after |-> IF write THEN DomClamp(target, height, th) ELSE cur]

\* target written whenever it differs from the offset
syncWithoutThreshold(cur, dragging, height, s, mainH, first, span, th) ==
    IF dragging \/ height = 0
    THEN [computed |-> FALSE, wrote |-> FALSE, target |-> 0, after |-> cur]
    ELSE LET den == 20 * Max(1, span)
             r == Max(0, Min(den, 20 * s + 9 * mainH - 20 * first))
             maxScroll == Max(0, height \div 2 - th)
             target == RoundDiv(r * maxScroll, den)
         IN  [computed |-> TRUE, wrote |-> cur # target, target |-> target,
              after |-> DomClamp(target, height, th)]

\* syncTimelineTrackToMain with the track at offset cur and clientHeight th, the scroll
\* container at scrollTop s and clientHeight mainH, and this.contentHeight = height
\* (half pixels): whether it got to compute target, whether it assigned scrollTop,
\* target, and the offset afterwards.
\* r is the ratio in twentieths of span, as 0.45 * mainH is a multiple of 1/20.
syncTimelineTrackToMain(cur, dragging, height, s, mainH, first, span, th) ==
    IF dragging \/ height = 0
    THEN [computed |-> FALSE, wrote |-> FALSE, target |-> 0, after |-> cur]
    ELSE LET den == 20 * Max(1, span)
             r == Max(0, Min(den, 20 * s + 9 * mainH - 20 * first))
             maxScroll == Max(0, height \div 2 - th)
             target == RoundDiv(r * maxScroll, den)
             write == Abs(cur - target) > 1
         IN  [computed |-> TRUE, wrote |-> write, target |-> target,
              after |-> IF write THEN DomClamp(target, height, th) ELSE cur]

\* what a call leaves in the track and in the history
Synced(r, th) ==
    /\ trackScrollTop' = r.after
    /\ lastSync' = [called |-> TRUE, computed |-> r.computed, wrote |-> r.wrote,
                    target |-> r.target, th |-> th]

\* a run of recalculateAndRenderMarkers that finds the user turns tops: with none it
\* returns before syncTimelineTrackToMain, else it caches firstUserTurnOffset (754) and
\* synchronizes (783) over the geometry it has just computed
SyncedRecalc(tops, Run(_, _), s, mainH, vh) ==
    /\ uiTrack
    /\ IF Len(tops) = 0
       THEN /\ Run(trackScrollTop, vh)
            /\ UNCHANGED <<trackScrollTop, firstUserTurnOffset>>
            /\ lastSync' = NoSync
       ELSE LET height == ContentHeight(Len(tops), barHeight, trackPadding, minGap)
                r == syncTimelineTrackToMain(DomClamp(trackScrollTop, height, vh),
                        sliderDragging, height, s, mainH, tops[1],
                        BuildMarkers(tops).contentSpanPx, vh)
            IN  /\ Run(r.after, vh)
                /\ firstUserTurnOffset' = tops[1]
                /\ Synced(r, vh)
    /\ UNCHANGED <<sliderDragging, sliderPointer>>

SyncedAppend(top, s, mainH, vh) ==
    /\ Len(offsetTops) < SyncMaxMarkers
    /\ SyncedRecalc(Append(offsetTops, top), LAMBDA st, h : AppendTurn(top, st, h), s, mainH, vh)

SyncedRemove(s, mainH, vh) ==
    SyncedRecalc(<<>>, RemoveTurns, s, mainH, vh)

\* the ResizeObserver callback, onWindowResize, onVisualViewportResize:
\* updateTimelineGeometry(); syncTimelineTrackToMain(); updateVirtualRangeAndRender()
SyncedResize(h, s, mainH, vh) ==
    /\ uiTrack
    /\ LET height == ContentHeight(Len(markers), h, trackPadding, minGap)
           r == syncTimelineTrackToMain(DomClamp(trackScrollTop, height, vh),
                   sliderDragging, height, s, mainH, firstUserTurnOffset, contentSpanPx, vh)
       IN  /\ ResizeBar(h, r.after, vh)
           /\ Synced(r, vh)
    /\ UNCHANGED <<sliderDragging, sliderPointer, firstUserTurnOffset>>

\* the pass that follows a write of the track's offset; it returns at once without markers
PassAt(st, vh) ==
    IF PassReads
    THEN ScrollSync(st, vh)
    ELSE UNCHANGED <<domVars, geoVars, outsideGeometry>>

\* the frame requested by scheduleScrollSync
ScrollFrame(s, mainH, vh) ==
    /\ uiTrack
    /\ LET r == syncTimelineTrackToMain(DomClamp(trackScrollTop, contentHeight, vh),
                   sliderDragging, contentHeight, s, mainH, firstUserTurnOffset,
                   contentSpanPx, vh)
       IN  /\ PassAt(r.after, vh)
           /\ Synced(r, vh)
    /\ UNCHANGED <<sliderDragging, sliderPointer, firstUserTurnOffset>>

\* pointerdown on the slider handle
onSliderDown ==
    /\ uiTrack
    /\ ~sliderPointer
    /\ sliderDragging' = TRUE
    /\ sliderPointer' = TRUE
    /\ lastSync' = NoSync
    /\ UNCHANGED <<trackScrollTop, firstUserTurnOffset>>
    /\ UNCHANGED <<domVars, geoVars, outsideGeometry>>

\* pointermove on window while onSliderMove is registered (from onSliderDown until
\* endSliderDrag), with the handle at ratio[1] / ratio[2] of its travel
handleSliderDrag(ratio, vh) ==
    /\ sliderDragging
    /\ uiTrack
    /\ LET range == Max(1, contentHeight \div 2 - barHeight)
           st == DomClamp(RoundDiv(ratio[1] * range, ratio[2]), contentHeight, vh)
       IN  /\ trackScrollTop' = st
           /\ PassAt(st, vh)
    /\ lastSync' = NoSync
    /\ UNCHANGED <<sliderDragging, sliderPointer, firstUserTurnOffset>>

\* pointerup on window: the listener onSliderDown registered once (1067) is there
\* exactly while sliderDragging is set, and any pointer released over the window calls
\* it, the one that pressed the handle or, after a cancel, a later one
endSliderDrag ==
    /\ sliderDragging
    /\ sliderDragging' = FALSE
    /\ sliderPointer' = FALSE
    /\ lastSync' = NoSync
    /\ UNCHANGED <<trackScrollTop, firstUserTurnOffset>>
    /\ UNCHANGED <<domVars, geoVars, outsideGeometry>>

\* pointercancel for the pointer that pressed the handle: no pointerup follows, and no
\* handler of the slider listens for it (946, 955 cancel the long press only)
PointerCancel ==
    /\ sliderPointer
    /\ sliderPointer' = FALSE
    /\ lastSync' = NoSync
    /\ UNCHANGED <<sliderDragging, trackScrollTop, firstUserTurnOffset>>
    /\ UNCHANGED <<domVars, geoVars, outsideGeometry>>

InitSync ==
    /\ IdentityConstructed
    /\ ActiveConstructed
    /\ GapConstructed
    /\ StarsConstructed
    /\ LifecycleConstructed
    /\ TooltipConstructed
    /\ \E style \in SyncStyles : GeometryConstructed(0, style.pad, style.gap)

NextSync ==
    \/ \E top \in SyncTops, s \in MainScrollTops, mainH \in MainHeights, vh \in SyncBarHeights :
          SyncedAppend(top, s, mainH, vh)
    \/ \E s \in MainScrollTops, mainH \in MainHeights, vh \in SyncBarHeights :
          SyncedRemove(s, mainH, vh)
    \/ \E h \in SyncBarHeights, s \in MainScrollTops, mainH \in MainHeights,
          vh \in SyncBarHeights : SyncedResize(h, s, mainH, vh)
    \/ \E s \in MainScrollTops, mainH \in MainHeights, vh \in SyncBarHeights :
          ScrollFrame(s, mainH, vh)
    \/ onSliderDown
    \/ \E ratio \in SliderRatios, vh \in SyncBarHeights : handleSliderDrag(ratio, vh)
    \/ endSliderDrag
    \/ PointerCancel

SpecSync == InitSync /\ [][NextSync]_vars


(***************************************************************************)
(* Schedulers: the animation frame of scheduleScrollSync, the debounce of  *)
(* the MutationObserver and the retry of a rebuild that found no user      *)
(* turn.  What a rebuild lays out is followed in SpecGeometry; here a      *)
(* rebuild is followed as far as its timers go.  Time passes in ticks of   *)
(* SchedTickMs; a timeout set for d ms is due after Ticks(d) ticks and its *)
(* callback runs then or later.                                            *)
(***************************************************************************)
SchedTickMs == 70
MaxScrollPos == 2
rebuildDelay == 350
zeroTurnsDelay == 350
\* the user turns of the conversation: none, one, two
SchedTurns == { <<>>, <<0>>, <<0, 400>> }

Ticks(ms) == (ms + SchedTickMs - 1) \div SchedTickMs

\* setTimeout(callback, ms) and clearTimeout(handle) on the timeouts the browser holds
\* for one callback; the handle the code keeps is that of the timeout set last
SetTimeout(timeouts, ms) == Append(timeouts, Ticks(ms))
ClearTimeout(timeouts) ==
    IF Len(timeouts) = 0 THEN timeouts ELSE SubSeq(timeouts, 1, Len(timeouts) - 1)
RemoveAt(seq, i) == SubSeq(seq, 1, i - 1) \o SubSeq(seq, i + 1, Len(seq))
Elapse(timeouts) == [i \in 1..Len(timeouts) |-> Max(0, timeouts[i] - 1)]

\* scheduleScrollSync without the test of scrollRafId
scheduleAlways(raf, queued) == [raf |-> TRUE, frames |-> queued + 1]

\* scheduleScrollSync() over this.scrollRafId and the callbacks the browser holds
scheduleScrollSync(raf, queued) ==
    IF raf THEN [raf |-> raf, frames |-> queued] ELSE [raf |-> TRUE, frames |-> queued + 1]

\* the debounced function without clearTimeout(timeout)
debounceKeep(timeouts, ms) == SetTimeout(timeouts, ms)

\* the function debounce(func, delay) returns: clearTimeout(timeout); timeout = setTimeout(...)
debounce(timeouts, ms) == SetTimeout(ClearTimeout(timeouts), ms)

\* the branch for no user turn without the test of this.zeroTurnsTimer
retryAlways(timer, timeouts) == [timer |-> TRUE, timeouts |-> SetTimeout(timeouts, zeroTurnsDelay)]

\* if (!this.zeroTurnsTimer) { this.zeroTurnsTimer = setTimeout(..., 350) }
retryZeroTurns(timer, timeouts) ==
    IF timer THEN [timer |-> timer, timeouts |-> timeouts]
    ELSE [timer |-> TRUE, timeouts |-> SetTimeout(timeouts, zeroTurnsDelay)]

\* recalculateAndRenderMarkers() started by `by`, with this.zeroTurnsTimer and the
\* timeouts held for it as the caller leaves them
Recalculate(by, timer, timeouts) ==
    IF ~uiTrack
    THEN \* return at 722: the instance is torn down
         /\ zeroTurnsTimer' = timer
         /\ zeroTimeouts' = timeouts
         /\ lastRebuild' = [by |-> by, found |-> "returned", armed |-> FALSE]
         /\ UNCHANGED <<stale, scrollRafId, frames>>
    ELSE IF Len(offsetTops) = 0
    THEN LET r == retryZeroTurns(timer, timeouts)
         IN  /\ zeroTurnsTimer' = r.timer
             /\ zeroTimeouts' = r.timeouts
             /\ lastRebuild' = [by |-> by, found |-> "zero",
                                armed |-> Len(r.timeouts) > Len(timeouts)]
             /\ stale' = FALSE
             /\ UNCHANGED <<scrollRafId, frames>>
    ELSE LET f == scheduleScrollSync(scrollRafId, frames)
         IN  /\ zeroTurnsTimer' = FALSE
             /\ zeroTimeouts' = IF timer THEN ClearTimeout(timeouts) ELSE timeouts
             /\ lastRebuild' = [by |-> by, found |-> "some", armed |-> FALSE]
             /\ stale' = FALSE
             /\ scrollRafId' = f.raf
             /\ frames' = f.frames

\* what the schedulers' steps leave of the layout
layoutVars == <<markers, markersVersion, dotElement, contentSpanPx, contentHeight, yPositions,
                visibleRange, viewport>>
outsideSched == <<idVars, histVars, actVars, starVars, lifeVars, tipVars, syncVars, buildVars, liveVars, pressVars, raceVars, gapVars>>

\* the scroll container is scrolled to pos and its 'scroll' event calls onScroll
onScroll(pos) ==
    /\ uiTrack
    /\ pos # scrollPos
    /\ scrollPos' = pos
    /\ LET f == scheduleScrollSync(scrollRafId, frames)
       IN  scrollRafId' = f.raf /\ frames' = f.frames
    /\ UNCHANGED <<passPos, stale, sinceMutation, rebuildTimeouts, zeroTimeouts, lastRebuild,
                   resizeIdleTimer>>
    /\ UNCHANGED <<domVars, uiTrack, zeroTurnsTimer, layoutVars, outsideSched>>

\* the callback of the IntersectionObserver (808-821)
onIntersection ==
    /\ uiTrack
    /\ LET f == scheduleScrollSync(scrollRafId, frames)
       IN  scrollRafId' = f.raf /\ frames' = f.frames
    /\ UNCHANGED <<scrollPos, passPos, stale, sinceMutation, rebuildTimeouts, zeroTimeouts,
                   lastRebuild, resizeIdleTimer>>
    /\ UNCHANGED <<domVars, uiTrack, zeroTurnsTimer, layoutVars, outsideSched>>

\* the next display refresh runs a callback of scheduleScrollSync: the pass reads the
\* scroll position
AnimationFrame ==
    /\ frames > 0
    /\ frames' = frames - 1
    /\ scrollRafId' = FALSE
    /\ passPos' = IF uiTrack THEN scrollPos ELSE passPos
    /\ UNCHANGED <<scrollPos, stale, sinceMutation, rebuildTimeouts, zeroTimeouts, lastRebuild,
                   resizeIdleTimer>>
    /\ UNCHANGED <<domVars, uiTrack, zeroTurnsTimer, layoutVars, outsideSched>>

\* the conversation changes to the user turns tops and the MutationObserver calls back
onMutation(tops) ==
    /\ uiTrack
    /\ tops # offsetTops
    /\ offsetTops' = tops
    /\ stale' = TRUE
    /\ sinceMutation' = 0
    /\ rebuildTimeouts' = debounce(rebuildTimeouts, rebuildDelay)
    /\ UNCHANGED <<scrollPos, passPos, scrollRafId, frames, zeroTimeouts, lastRebuild,
                   resizeIdleTimer>>
    /\ UNCHANGED <<barHeight, trackPadding, minGap, uiTrack, zeroTurnsTimer, layoutVars,
                   outsideSched>>

\* a timeout of debouncedRecalculateAndRender is due and its callback runs
RebuildTimeoutFire ==
    \E i \in 1..Len(rebuildTimeouts) :
       /\ rebuildTimeouts[i] = 0
       /\ rebuildTimeouts' = RemoveAt(rebuildTimeouts, i)
       /\ Recalculate("debounce", zeroTurnsTimer, zeroTimeouts)
       /\ UNCHANGED <<scrollPos, passPos, sinceMutation, resizeIdleTimer>>
       /\ UNCHANGED <<domVars, uiTrack, layoutVars, outsideSched>>

\* a timeout of zeroTurnsTimer is due and its callback runs:
\* this.zeroTurnsTimer = null; this.recalculateAndRenderMarkers()
ZeroTimeoutFire ==
    \E i \in 1..Len(zeroTimeouts) :
       /\ zeroTimeouts[i] = 0
       /\ Recalculate("retry", FALSE, RemoveAt(zeroTimeouts, i))
       /\ UNCHANGED <<scrollPos, passPos, sinceMutation, rebuildTimeouts, resizeIdleTimer>>
       /\ UNCHANGED <<domVars, uiTrack, layoutVars, outsideSched>>

\* one tick passes
SchedTick ==
    /\ rebuildTimeouts' = Elapse(rebuildTimeouts)
    /\ zeroTimeouts' = Elapse(zeroTimeouts)
    /\ sinceMutation' = Min(sinceMutation + 1, Ticks(rebuildDelay))
    /\ UNCHANGED <<scrollPos, passPos, scrollRafId, frames, stale, lastRebuild, resizeIdleTimer>>
    /\ UNCHANGED <<domVars, uiTrack, zeroTurnsTimer, layoutVars, outsideSched>>

\* destroy() as far as the schedulers go: the observers are disconnected and the scroll
\* listener removed, the animation frame is cancelled (1828-1831) and resizeIdleTimer
\* cleared (1871-1874); the two timeouts of the rebuild are left (1788-1883)
SchedDestroy ==
    /\ uiTrack
    /\ uiTrack' = FALSE
    /\ markers' = <<>>
    /\ dotElement' = <<>>
    /\ frames' = IF scrollRafId THEN frames - 1 ELSE frames
    /\ scrollRafId' = FALSE
    /\ resizeIdleTimer' = FALSE
    /\ UNCHANGED <<scrollPos, passPos, stale, sinceMutation, rebuildTimeouts, zeroTimeouts,
                   lastRebuild>>
    /\ UNCHANGED <<domVars, zeroTurnsTimer, markersVersion, contentSpanPx, contentHeight,
                   yPositions, visibleRange, viewport, outsideSched>>

InitSched ==
    /\ IdentityConstructed
    /\ GeometryConstructed(0, 24, 24)
    /\ ActiveConstructed
    /\ GapConstructed
    /\ StarsConstructed
    /\ LifecycleConstructed
    /\ TooltipConstructed

NextSched ==
    \/ \E pos \in 0..MaxScrollPos : onScroll(pos)
    \/ onIntersection
    \/ AnimationFrame
    \/ \E tops \in SchedTurns : onMutation(tops)
    \/ RebuildTimeoutFire
    \/ ZeroTimeoutFire
    \/ SchedTick
    \/ SchedDestroy

SpecSched == InitSched /\ [][NextSched]_vars

\* the display refreshes, time passes and due timeouts run
SpecSchedFair ==
    /\ SpecSched
    /\ WF_vars(AnimationFrame)
    /\ WF_vars(SchedTick)
    /\ WF_vars(RebuildTimeoutFire)
    /\ WF_vars(ZeroTimeoutFire)

(***************************************************************************)
(* Long press on a dot.  pointerdown on a dot arms longPressTimer; its     *)
(* callback toggles the star and opens a window in which clicks on dots    *)
(* are dropped; pointerup, pointercancel and a move beyond the tolerance   *)
(* cancel the timer.  The browser dispatches click after pointerup when    *)
(* the pointer is released over the dot it went down on.  Which star is    *)
(* toggled is followed in SpecStars; here the press records that it did,   *)
(* and where the pointer was last seen.                                    *)
(***************************************************************************)
longPressDuration == 550
longPressMoveTolerance == 6
suppressClickFor == 350

\* where the pointer goes down, and where it can be afterwards
PressStart == <<0, 0>>
PressPoints == { <<0, 0>>, <<6, 0>>, <<7, 0>>, <<5, 4>> }

outsidePress == <<idVars, histVars, domVars, geoVars, actVars, starVars, lifeVars, tipVars, syncVars,
                  schedVars, buildVars, liveVars, raceVars, gapVars>>

\* cancelLongPress (1941-1947): what is left of the timer
cancelLongPress(timer) == -1

\* this.suppressClickUntil = Date.now() + 350, as the time left until then
suppressAfter(ms) == Ticks(ms)

\* onPointerDown on a dot with the left button
onPointerDown ==
    /\ ~pointerDown
    /\ pointerDown' = TRUE
    /\ pressTargetDot' = TRUE
    /\ pressStartPos' = PressStart
    /\ longPressTriggered' = FALSE
    /\ longPressTimer' = Ticks(longPressDuration)
    /\ press' = NoPress
    /\ UNCHANGED suppressLeft
    /\ UNCHANGED outsidePress

\* the callback of longPressTimer, at its due time or later
LongPressTimerFire ==
    /\ longPressTimer = 0
    /\ longPressTimer' = -1
    /\ IF ~pressTargetDot
       THEN UNCHANGED <<longPressTriggered, suppressLeft, press>>
       ELSE /\ press' = [press EXCEPT !.toggled = TRUE]
            /\ longPressTriggered' = TRUE
            /\ suppressLeft' = suppressAfter(suppressClickFor)
    /\ UNCHANGED <<pointerDown, pressTargetDot, pressStartPos>>
    /\ UNCHANGED outsidePress

\* onPointerMove with the pointer at pos
onPointerMove(pos) ==
    /\ pointerDown
    /\ IF ~pressTargetDot \/ pressStartPos = <<>>
       THEN /\ press' = [press EXCEPT !.at = pos]
            /\ UNCHANGED <<pressTargetDot, pressStartPos, longPressTriggered, longPressTimer>>
       ELSE LET dx == pos[1] - pressStartPos[1]
                dy == pos[2] - pressStartPos[2]
            IN  IF dx * dx + dy * dy > longPressMoveTolerance * longPressMoveTolerance
                THEN /\ longPressTimer' = cancelLongPress(longPressTimer)
                     /\ pressTargetDot' = FALSE
                     /\ pressStartPos' = <<>>
                     /\ longPressTriggered' = FALSE
                     /\ press' = [press EXCEPT !.early = @ \/ ~press.toggled, !.at = pos]
                ELSE /\ press' = [press EXCEPT !.at = pos]
                     /\ UNCHANGED <<pressTargetDot, pressStartPos, longPressTriggered,
                                    longPressTimer>>
    /\ UNCHANGED <<pointerDown, suppressLeft>>
    /\ UNCHANGED outsidePress

\* the pointer is released: onPointerUp, and when it is released over the dot it went
\* down on (click), onTimelineBarClick
Release(click) ==
    /\ pointerDown
    /\ pointerDown' = FALSE
    /\ longPressTimer' = cancelLongPress(longPressTimer)
    /\ pressTargetDot' = FALSE
    /\ pressStartPos' = <<>>
    /\ longPressTriggered' = FALSE
    /\ press' = [press EXCEPT !.early = @ \/ ~press.toggled,
                              !.navigated = click /\ ~(suppressLeft > 0)]
    /\ UNCHANGED suppressLeft
    /\ UNCHANGED outsidePress

\* onPointerCancel: the browser takes the pointer away, no click follows
onPointerCancel ==
    /\ pointerDown
    /\ pointerDown' = FALSE
    /\ longPressTimer' = cancelLongPress(longPressTimer)
    /\ pressTargetDot' = FALSE
    /\ pressStartPos' = <<>>
    /\ longPressTriggered' = FALSE
    /\ press' = [press EXCEPT !.early = @ \/ ~press.toggled]
    /\ UNCHANGED suppressLeft
    /\ UNCHANGED outsidePress

\* onPointerLeave: the pointer leaves the bar from the dot it is pressing
onPointerLeave ==
    /\ pointerDown
    /\ pressTargetDot
    /\ longPressTimer' = cancelLongPress(longPressTimer)
    /\ pressTargetDot' = FALSE
    /\ pressStartPos' = <<>>
    /\ longPressTriggered' = FALSE
    /\ press' = [press EXCEPT !.early = @ \/ ~press.toggled]
    /\ UNCHANGED <<pointerDown, suppressLeft>>
    /\ UNCHANGED outsidePress

\* one tick of time passes
PressTick ==
    /\ longPressTimer' = IF longPressTimer > 0 THEN longPressTimer - 1 ELSE longPressTimer
    /\ suppressLeft' = Max(0, suppressLeft - 1)
    /\ UNCHANGED <<pointerDown, pressTargetDot, pressStartPos, longPressTriggered, press>>
    /\ UNCHANGED outsidePress

InitPress == InitSched

NextPress ==
    \/ onPointerDown
    \/ LongPressTimerFire
    \/ \E pos \in PressPoints : onPointerMove(pos)
    \/ \E click \in BOOLEAN : Release(click)
    \/ onPointerCancel
    \/ onPointerLeave
    \/ PressTick

SpecPress == InitPress /\ [][NextPress]_vars

(***************************************************************************)
(* Active-Marker Resolver: the handlers                                    *)
(***************************************************************************)
Tick ==
    /\ now + TickMs <= MaxNow
    /\ now' = now + TickMs
    /\ UNCHANGED <<activeTurnId, lastActiveChangeTime, pendingActiveId, activeChangeTimer,
                   resolved, fired>>
    /\ UNCHANGED outsideActive

\* computeActiveByScroll from line 1745 on, with activeId resolved
SetActive(activeId) ==
    LET since == now - lastActiveChangeTime
        h == Resolve(resolved, activeId, now)
    IN  /\ IF activeTurnId # activeId
           THEN IF since < minActiveChangeInterval
                THEN /\ pendingActiveId' = StorePending(pendingActiveId, activeId)
                     /\ activeChangeTimer' =
                           IF activeChangeTimer = NoTimer
                           THEN now + Max(minActiveChangeInterval - since, 0)
                           ELSE activeChangeTimer
                     /\ resolved' = [h EXCEPT !.overwritten =
                                        IF pendingActiveId # None /\ pendingActiveId # activeId
                                        THEN pendingActiveId ELSE @]
                     /\ UNCHANGED <<activeTurnId, lastActiveChangeTime>>
                ELSE /\ activeTurnId' = activeId
                     /\ lastActiveChangeTime' = now
                     /\ resolved' = Apply(h, activeId)
                     /\ UNCHANGED <<pendingActiveId, activeChangeTimer>>
           ELSE /\ resolved' = h
                /\ UNCHANGED <<activeTurnId, lastActiveChangeTime, pendingActiveId,
                               activeChangeTimer>>
        /\ UNCHANGED <<now, fired>>

computeActiveByScroll(below) ==
    /\ SetActive(resolveActive(below))
    /\ UNCHANGED outsideActive

\* the callback of activeChangeTimer, at its due time or later
ActiveChangeTimerFire ==
    /\ activeChangeTimer # NoTimer
    /\ now >= activeChangeTimer
    /\ activeChangeTimer' = NoTimer
    /\ IF pendingActiveId # None /\ pendingActiveId # activeTurnId
       THEN /\ activeTurnId' = pendingActiveId
            /\ lastActiveChangeTime' = now
            /\ resolved' = [Apply(resolved, pendingActiveId) EXCEPT !.overwritten = None]
            /\ fired' = [happened |-> TRUE, pending |-> pendingActiveId,
                         overwritten |-> resolved.overwritten, applied |-> pendingActiveId]
       ELSE /\ UNCHANGED <<activeTurnId, lastActiveChangeTime>>
            /\ resolved' = [resolved EXCEPT !.overwritten = None]
            /\ fired' = [happened |-> TRUE, pending |-> pendingActiveId,
                         overwritten |-> resolved.overwritten, applied |-> None]
    /\ pendingActiveId' = None
    /\ UNCHANGED now
    /\ UNCHANGED outsideActive

InitActive ==
    /\ IdentityConstructed
    /\ GeometryConstructed(0, 24, 24)
    /\ ActiveConstructed
    /\ GapConstructed
    /\ StarsConstructed
    /\ LifecycleConstructed
    /\ TooltipConstructed

NextActive ==
    \/ Tick
    \/ \E below \in [1..Len(MarkerIds) -> BOOLEAN] : computeActiveByScroll(below)
    \/ ActiveChangeTimerFire

SpecActive == InitActive /\ [][NextActive]_vars

(***************************************************************************)
(* The Active-Marker Resolver over markers that are rebuilt.  A rebuild    *)
(* replaces this.markers, sets activeTurnId only when it is null (780) and *)
(* schedules a synchronization pass (787); the pass resolves the active    *)
(* marker over the markers it finds.                                       *)
(***************************************************************************)
\* the markers a rebuild can find: the user turns that are left, at least one
LiveLists ==
    { ids \in UNION { [1..n -> Range(MarkerIds)] : n \in 1..Len(MarkerIds) } :
        \A i \in 1..(Len(ids) - 1) : ids[i] < ids[i + 1] }

\* the scan of computeActiveByScroll (1735-1744) over the markers ids
RECURSIVE ScanLive(_, _, _, _)
ScanLive(ids, below, i, activeId) ==
    IF i > Len(ids) THEN activeId
    ELSE IF below[i] THEN ScanLive(ids, below, i + 1, ids[i])
         ELSE activeId

outsideLive == <<idVars, histVars, domVars, geoVars, starVars, lifeVars, tipVars, syncVars, buildVars, pressVars, raceVars, gapVars>>
otherSched == <<scrollPos, passPos, stale, sinceMutation, rebuildTimeouts, zeroTimeouts, lastRebuild,
                resizeIdleTimer>>

\* recalculateAndRenderMarkers finding the user turns ids
RebuildLive(ids) ==
    LET s == scheduleScrollSync(scrollRafId, frames)
    IN  /\ liveIds' = ids
        /\ activeTurnId' = IF activeTurnId = None THEN ids[Len(ids)] ELSE activeTurnId
        /\ scrollRafId' = s.raf
        /\ frames' = s.frames
        /\ UNCHANGED <<now, lastActiveChangeTime, pendingActiveId, activeChangeTimer, resolved, fired>>
        /\ UNCHANGED <<otherSched, outsideLive>>

\* a scroll event: onScroll calls scheduleScrollSync
ScrollLive ==
    LET s == scheduleScrollSync(scrollRafId, frames)
    IN  /\ scrollRafId' = s.raf
        /\ frames' = s.frames
        /\ UNCHANGED <<actVars, liveVars, otherSched, outsideLive>>

\* the callback of scheduleScrollSync: its computeActiveByScroll over this.markers
PassLive(below) ==
    /\ frames > 0
    /\ frames' = frames - 1
    /\ scrollRafId' = FALSE
    /\ SetActive(ScanLive(liveIds, below, 1, liveIds[1]))
    /\ UNCHANGED <<liveVars, otherSched, outsideLive>>

InitLive == InitActive

NextLive ==
    \/ Tick
    \/ \E ids \in LiveLists : RebuildLive(ids)
    \/ ScrollLive
    \/ \E below \in [1..Len(liveIds) -> BOOLEAN] : PassLive(below)
    \/ ActiveChangeTimerFire

SpecLive == InitLive /\ [][NextLive]_vars


(***************************************************************************)
(* Starred set: the handlers                                               *)
(***************************************************************************)
\* toggleStar(turnId); ok: localStorage.setItem in saveStars did not throw
toggleStar(turnId, ok) ==
    /\ IF turnId = <<>>
       THEN UNCHANGED <<starred, markerStarred, builtStarred, lsStars, twice>>
       ELSE LET next == Toggle(starred, turnId)
            IN  /\ starred' = next
                /\ lsStars' = IF ok THEN StringifyStars(next) ELSE lsStars
                /\ markerStarred' = IF turnId \in DOMAIN markerStarred
                                    THEN [markerStarred EXCEPT ![turnId] = turnId \in Range(next)]
                                    ELSE markerStarred
                /\ builtStarred' = [i \in 1..Len(builtIds) |->
                                      IF i \in markerMapGet(builtIds, turnId)
                                      THEN turnId \in Range(next) ELSE builtStarred[i]]
                /\ twice' = IF twice.calls = 1 /\ twice.id = turnId
                            THEN [twice EXCEPT !.calls = 2, !.written = @ /\ ok, !.lastWritten = ok]
                            ELSE [calls |-> 1, id |-> turnId,
                                  flag |-> turnId \in DOMAIN markerStarred /\ markerStarred[turnId],
                                  members |-> Range(starred),
                                  stored |-> Range(loadStars(lsStars)),
                                  synced |-> Range(loadStars(lsStars)) = Range(starred),
                                  written |-> ok, lastWritten |-> ok, reload |-> "no"]
    /\ UNCHANGED storageEvent
    /\ UNCHANGED outsideStars

\* another tab of the same conversation saves its starred set
OtherTabSaves(members) ==
    /\ storageEvent = NoEvent
    /\ lsStars' = StringifyStars(members)
    /\ storageEvent' = lsStars'
    /\ twice' = NoToggle
    /\ UNCHANGED <<starred, markerStarred, builtStarred>>
    /\ UNCHANGED outsideStars

\* onStorage for the stars key
onStorage ==
    /\ storageEvent # NoEvent
    /\ storageEvent' = NoEvent
    /\ LET nextSet == loadStars(storageEvent)
       IN  IF Range(nextSet) = Range(starred)
           THEN UNCHANGED <<starred, markerStarred, builtStarred>>
           ELSE /\ starred' = nextSet
                /\ markerStarred' = FlagsOf(nextSet)
                /\ builtStarred' = StarredOf(builtIds, nextSet)
    /\ twice' = NoToggle
    /\ UNCHANGED lsStars
    /\ UNCHANGED outsideStars

\* a fresh instance: loadStars, then the markers are rebuilt.  The history keeps the
\* set the instance before it had, whether the steps just before were toggleStar
\* calls of that instance, and whether the write of the last one succeeded.
ReloadStars ==
    /\ starred' = loadStars(lsStars)
    /\ markerStarred' = FlagsOf(starred')
    /\ builtStarred' = StarredOf(builtIds, starred')
    /\ storageEvent' = NoEvent
    /\ twice' = [NoToggle EXCEPT !.members = Range(starred),
                                 !.lastWritten = twice.lastWritten,
                                 !.reload = IF twice.calls >= 1 THEN "afterToggle" ELSE "other"]
    /\ UNCHANGED lsStars
    /\ UNCHANGED outsideStars

InitStars ==
    /\ IdentityConstructed
    /\ GeometryConstructed(0, 24, 24)
    /\ ActiveConstructed
    /\ GapConstructed
    /\ StarsConstructed
    /\ LifecycleConstructed
    /\ TooltipConstructed

NextStars ==
    \/ \E turnId \in StarIds \cup {<<>>}, ok \in BOOLEAN : toggleStar(turnId, ok)
    \/ \E members \in {<<>>, <<<<97>>>>, <<<<49>>, <<97>>>>} : OtherTabSaves(members)
    \/ onStorage
    \/ ReloadStars

SpecStars == InitStars /\ [][NextStars]_vars

(***************************************************************************)
(* The markers' starred flags over the markers a rebuild built: stars are  *)
(* toggled on the markers of the conversation, another tab saves its set,  *)
(* and the conversation is rebuilt.                                        *)
(***************************************************************************)
\* the user turns of the conversation: two contents, each of which can occur twice
StarTurnLists ==
    { els \in TurnLists :
        \A i \in 1..Len(els) : els[i].ts \in { <<65, 97, 65, 97>>, <<65, 97, 66, 66>> } }

NextMarkStars ==
    \/ \E els \in StarTurnLists, t \in Clock : RebuildIds(els, t)
    \/ \E i \in 1..Len(builtIds), ok \in BOOLEAN : toggleStar(builtIds[i], ok)
    \/ \E members \in {<<>>} \cup { <<builtIds[i]>> : i \in 1..Len(builtIds) } : OtherTabSaves(members)
    \/ onStorage

SpecMarkStars == InitStars /\ [][NextMarkStars]_vars


(***************************************************************************)
(* Entry point and instances: the handlers                                 *)
(***************************************************************************)
\* initializeTimeline(): destroy the held instance, create the next one and call its
\* init(), which runs up to await findCriticalElements()
initializeTimeline ==
    LET new == Created + 1
        old == timelineManagerInstance
        torn == IF old # None THEN [inst EXCEPT ![old] = destroy(inst[old])] ELSE inst
    IN  /\ new <= MaxInstances
        /\ inst' = [torn EXCEPT ![new] = [NoInstance EXCEPT !.init = "awaiting"]]
        /\ timelineManagerInstance' = new

\* initialObserver sees the conversation page for the first time
InitialObserverFires ==
    /\ Created = 0
    /\ conversationRoute
    /\ initializeTimeline
    /\ UNCHANGED <<initTimerId, conversationRoute>>
    /\ UNCHANGED outsideLifecycle

\* handleUrlChange() after the location changed, to a conversation route or away from one
handleUrlChange(conversation) ==
    /\ Created > 0
    /\ conversationRoute' = conversation
    /\ IF conversation
       THEN /\ initTimerId' = TRUE
            /\ UNCHANGED <<timelineManagerInstance, inst>>
       ELSE /\ initTimerId' = FALSE
            /\ timelineManagerInstance' = None
            /\ inst' = IF timelineManagerInstance # None
                       THEN [inst EXCEPT ![timelineManagerInstance] = destroy(@)]
                       ELSE inst
    /\ UNCHANGED outsideLifecycle

\* the 300ms timer of handleUrlChange fires
InitTimerFire ==
    /\ initTimerId
    /\ initTimerId' = FALSE
    /\ IF conversationRoute
       THEN initializeTimeline
       ELSE UNCHANGED <<timelineManagerInstance, inst>>
    /\ UNCHANGED conversationRoute
    /\ UNCHANGED outsideLifecycle

\* init() resumes after await findCriticalElements(): the element was found, or the 5s
\* timeout of waitForElement resolved null
InitResumes(i, found) ==
    /\ inst[i].init = "awaiting"
    /\ inst' = [inst EXCEPT ![i] =
                  IF found
                  THEN [@ EXCEPT !.init = "attached", !.attached = TRUE,
                                 !.ranAfterDestroy = @ \/ inst[i].destroyed]
                  ELSE [@ EXCEPT !.init = "gaveUp"]]
    /\ UNCHANGED <<timelineManagerInstance, initTimerId, conversationRoute>>
    /\ UNCHANGED outsideLifecycle

\* an event reaches a listener or observer of instance i and arms timer t:
\* MutationObserver (rebuild), a rebuild over no user turn (zeroTurns), an id resolved
\* for a new fingerprint (persist), computeActiveByScroll (activeChange),
\* onPointerDown on a dot (longPress), onScroll (scrollRaf)
Arm(i, t) ==
    /\ inst[i].attached
    /\ inst' = [inst EXCEPT ![i].timers = @ \cup {t}]
    /\ UNCHANGED <<timelineManagerInstance, initTimerId, conversationRoute>>
    /\ UNCHANGED outsideLifecycle

\* onPointerUp: cancelLongPress()
PointerUp(i) ==
    /\ inst[i].attached
    /\ inst' = [inst EXCEPT ![i].timers = @ \ {"longPress"}]
    /\ UNCHANGED <<timelineManagerInstance, initTimerId, conversationRoute>>
    /\ UNCHANGED outsideLifecycle

\* the callback of timer t of instance i runs; the long-press callback calls toggleStar,
\* which writes the stars item
Fire(i, t) ==
    /\ t \in inst[i].timers
    /\ inst' = [inst EXCEPT ![i].timers = @ \ {t},
                            ![i].ranAfterDestroy = @ \/ inst[i].destroyed,
                            ![i].wroteAfterDestroy = @ \/ (inst[i].destroyed /\ t = "longPress")]
    /\ UNCHANGED <<timelineManagerInstance, initTimerId, conversationRoute>>
    /\ UNCHANGED outsideLifecycle

InitLifecycle ==
    /\ IdentityConstructed
    /\ GeometryConstructed(0, 24, 24)
    /\ ActiveConstructed
    /\ GapConstructed
    /\ StarsConstructed
    /\ LifecycleConstructed
    /\ TooltipConstructed

NextLifecycle ==
    \/ InitialObserverFires
    \/ \E conversation \in BOOLEAN : handleUrlChange(conversation)
    \/ InitTimerFire
    \/ \E i \in 1..MaxInstances, found \in BOOLEAN : InitResumes(i, found)
    \/ \E i \in 1..MaxInstances, t \in Timers : Arm(i, t)
    \/ \E i \in 1..MaxInstances : PointerUp(i)
    \/ \E i \in 1..MaxInstances, t \in Timers : Fire(i, t)

SpecLifecycle == InitLifecycle /\ [][NextLifecycle]_vars

(***************************************************************************)
(* Tooltip: the pointer is over a dot with some text, in some window;     *)
(* showTooltipForDot computes side, width and text.                        *)
(***************************************************************************)
\* all texts of 'a' and ' ' of up to n characters
RECURSIVE TextsUpTo(_)
TextsUpTo(n) ==
    IF n = 0 THEN { <<>> }
    ELSE LET shorter == TextsUpTo(n - 1)
         IN  shorter \cup { Append(t, c) : t \in shorter, c \in {97, Space} }

Texts == TextsUpTo(MaxText)

InnerWidths == {60, 400}
\* dots of 10px: at the left, in the middle of a 400px window, at the right
DotRects == { [left |-> 25, right |-> 35], [left |-> 195, right |-> 205],
              [left |-> 196, right |-> 206], [left |-> 360, right |-> 370] }
TipStyles == { DefaultStyle, [DefaultStyle EXCEPT !.arrowOut = -2, !.maxW = 140] }
Measurers == { DefaultMeasure, [DefaultMeasure EXCEPT !.glyphW = 140],
               [DefaultMeasure EXCEPT !.glyphW = 140, !.lineH = 27] }

\* showTooltipForDot(dot), up to the call of placeTooltipAt
showTooltipForDot ==
    LET p == computePlacementInfo(dotRect, innerWidth, tipStyle)
        layout == truncateToThreeLines(fullText, p.width, tipStyle, measureEl)
    IN  /\ tooltip' = [placement |-> p.placement, width |-> p.width,
                       text |-> layout.text, height |-> layout.height]
        /\ UNCHANGED <<innerWidth, tipStyle, measureEl, dotRect, fullText>>
        /\ UNCHANGED outsideTooltip

InitTooltip ==
    /\ IdentityConstructed
    /\ GeometryConstructed(0, 24, 24)
    /\ ActiveConstructed
    /\ GapConstructed
    /\ StarsConstructed
    /\ LifecycleConstructed
    /\ innerWidth \in InnerWidths
    /\ tipStyle \in TipStyles
    /\ measureEl \in Measurers
    /\ dotRect \in DotRects
    /\ fullText \in Texts
    /\ tooltip = NoTooltip

NextTooltip == showTooltipForDot

SpecTooltip == InitTooltip /\ [][NextTooltip]_vars

(***************************************************************************)
(* Properties                                                              *)
(***************************************************************************)

\* C1 (as amended): a resolution of a fingerprint returns the id returned for it
\* before, as long as its pair has stayed in the index since then: it was not
\* evicted, and a fresh instance found it in the store it loaded.
C1_SameIdWhileHeld ==
    (ret.prev # Undefined /\ ret.held) => ret.id = ret.prev

\* C1 witness: a fresh instance, loaded from the store, returns again an id that
\* the collision policy had suffixed.
C1_Witness ==
    /\ ret.prev # Undefined
    /\ ret.held
    /\ ~ret.here
    /\ ret.id = ret.prev
    /\ ret.id # DsTurn \o BaseHashOf[Watched]

\* C1 as stated: every repeated resolution within one instance returns the same
\* id, and so does a fresh instance loaded from the store that holds the pair.
C1_AsStated ==
    (ret.prev # Undefined /\ (ret.here \/ ret.held)) => ret.id = ret.prev

\* C2 as stated: no id of the index is bound to two different fingerprints.
C2_UniqueIds ==
    \A i, j \in 1..Len(fingerprintToTurnId) :
        i # j => fingerprintToTurnId[i][2] # fingerprintToTurnId[j][2]

\* C3 as stated: the index never holds more than fingerprintMapLimit entries, whatever
\* item loadMessageIdMap read, and neither does a value written by persistFingerprintMap.
C3_Bounded ==
    /\ Len(fingerprintToTurnId) <= fingerprintMapLimit
    /\ lsWritten => Len(lsMessageIds.v) <= fingerprintMapLimit

NonDecreasing(seq) == \A i \in 1..(Len(seq) - 1) : seq[i] <= seq[i + 1]

\* C4: after updateTimelineGeometry adjacent markers are at least minGap apart and every
\* marker lies in [pad, pad + usable], usable = max(1, contentHeight - 2 * pad).
C4_MinGapAndBounds ==
    LET pad == trackPadding
        usable == Max(2, contentHeight - 2 * pad)
    IN  /\ Len(yPositions) = Len(markers)
        /\ \A i \in 1..(Len(yPositions) - 1) :
              yPositions[i + 1] - yPositions[i] >= minGap * contentSpanPx
        /\ \A i \in 1..Len(yPositions) :
              /\ yPositions[i] >= pad * contentSpanPx
              /\ yPositions[i] <= (pad + usable) * contentSpanPx

\* three markers, the last two at the same raw offset, a positive gap: both passes of
\* applyMinGap have moved markers
C4_Witness ==
    /\ Len(markers) >= 3
    /\ minGap > 0
    /\ markers[2].baseN = markers[3].baseN
    /\ markers[Len(markers)].baseN = contentSpanPx
    /\ yPositions[3] - yPositions[2] = minGap * contentSpanPx

\* C5: yPositions is non-decreasing whenever baseN is non-decreasing in anchor order.
C5_Monotone ==
    NonDecreasing([i \in 1..Len(markers) |-> markers[i].baseN]) => NonDecreasing(yPositions)

\* increasing baseN under a negative gap, where the order does not follow from the gap
C5_Witness ==
    /\ Len(markers) >= 3
    /\ minGap < 0
    /\ NonDecreasing([i \in 1..Len(markers) |-> markers[i].baseN])
    /\ markers[1].baseN < markers[3].baseN
    /\ yPositions[1] < yPositions[3]

\* C6: over sorted yPositions every marker with y in [st, st + vh] is inside
\* [start, end], and none with y < st - buffer or y > st + vh + buffer is.
C6_RangeSound ==
    (viewport.fresh /\ NonDecreasing(yPositions)) =>
       LET st == viewport.st
           vh == viewport.vh
           buffer == Max(BufferFloor, vh)
           Inside(i) == visibleRange.start <= i - 1 /\ i - 1 <= visibleRange.end
       IN  \A i \in 1..Len(yPositions) :
              /\ (/\ yPositions[i] >= Scaled(st, contentSpanPx)
                  /\ yPositions[i] <= Scaled(st + vh, contentSpanPx)) => Inside(i)
              /\ (\/ yPositions[i] < Scaled(st - buffer, contentSpanPx)
                  \/ yPositions[i] > Scaled(st + vh + buffer, contentSpanPx)) => ~Inside(i)

\* a marker inside the viewport is rendered and one beyond each buffer is not
C6_Witness ==
    /\ viewport.fresh
    /\ NonDecreasing(yPositions)
    /\ visibleRange.start > 0
    /\ visibleRange.start <= visibleRange.end
    /\ visibleRange.end < Len(yPositions) - 1
    /\ yPositions[1] < Scaled(viewport.st - Max(BufferFloor, viewport.vh), contentSpanPx)
    /\ \E i \in 1..Len(yPositions) :
          /\ yPositions[i] >= Scaled(viewport.st, contentSpanPx)
          /\ yPositions[i] <= Scaled(viewport.st + viewport.vh, contentSpanPx)

\* C7 (as amended): of two different candidates stored as pending for one firing of the
\* active-change timer, the firing applies the later and never the earlier.
C7_TimerAppliesLast ==
    (fired.happened /\ fired.overwritten # None) =>
        /\ fired.applied \in {None, fired.pending}
        /\ fired.applied # fired.overwritten

\* a firing that found a pending candidate which had replaced another, and applied it
C7_Witness ==
    /\ fired.happened
    /\ fired.overwritten # None
    /\ fired.applied = fired.pending
    /\ activeTurnId = fired.pending

\* C7 as stated: when the resolved id changes twice within 120ms, the earlier of the two
\* values is never applied to activeTurnId.
C7_AsStated ==
    (/\ resolved.prev.id # None
     /\ resolved.last.at - resolved.prev.at < minActiveChangeInterval) => ~resolved.prev.applied

C9_NothingAfterDestroy ==
    \A i \in 1..MaxInstances :
        inst[i].destroyed =>
            /\ inst[i].timers = {}
            /\ ~inst[i].attached
            /\ ~inst[i].ranAfterDestroy
            /\ ~inst[i].wroteAfterDestroy

\* C10 as stated: at most one instance has UI, observers or listeners attached, and a
\* destroyed instance never has.
C10_SingleInstance ==
    /\ Cardinality({ i \in 1..MaxInstances : inst[i].attached }) <= 1
    /\ \A i \in 1..MaxInstances : ~(inst[i].destroyed /\ inst[i].attached)

\* C11 (as amended): a store access that throws leaves the index as it was before the
\* call (empty, as constructed, for loadMessageIdMap), and in an instance in which one
\* has thrown a resolution still returns the id returned before by this instance as
\* long as the pair has stayed in the index.
C11_FaultLeavesIndex ==
    /\ fault.now # "none" => fingerprintToTurnId = fault.before
    /\ (ret.faulted /\ ret.prev # Undefined /\ ret.here /\ ret.held) => ret.id = ret.prev

\* C11 witness: after a store access has thrown, this instance returns again an id
\* that the collision policy had suffixed.
C11_Witness ==
    /\ ret.faulted
    /\ ret.prev # Undefined
    /\ ret.here
    /\ ret.held
    /\ ret.id = ret.prev
    /\ ret.id # DsTurn \o BaseHashOf[Watched]

\* C11 as stated: in an instance in which a store access has thrown, every
\* resolution returns the id this instance returned for the fingerprint before.
C11_AsStated ==
    (ret.faulted /\ ret.prev # Undefined /\ ret.here) => ret.id = ret.prev

\* C12 (as amended): a fresh instance's loadMessageIdMap leaves the index empty when
\* the item is absent, no JSON, or JSON that is neither an array nor an object; from
\* an array it takes exactly the entries that are arrays of two or more items with a
\* string fingerprint and a string id, from an object exactly the properties with a
\* string value.  loadStars leaves the set empty when the item is absent, no JSON or
\* no array; from an array it takes String(item) of every item, skipping none.
C12_LoadTolerant ==
    [][OpenPage =>
        /\ lsMessageIds.k \notin {"arr", "obj"} => fingerprintToTurnId' = <<>>
        /\ lsMessageIds.k = "arr" => Range(fingerprintToTurnId') = StoredPairs(lsMessageIds)
        /\ lsMessageIds.k = "obj" =>
               Range(fingerprintToTurnId') =
                   { <<e[1], e[2].v>> : e \in { x \in Range(lsMessageIds.v) : x[2].k = "str" } }
        /\ lsStars.k # "arr" => starred' = <<>>
        /\ lsStars.k = "arr" =>
               Range(starred') = { StringOf(item) : item \in Range(lsStars.v) }
    ]_vars

\* C12 witness: the index was loaded from the array of mostly malformed entries and
\* holds its one valid pair; the starred set was loaded from the array holding a
\* number and null.
C12_Witness ==
    /\ lsMessageIds = MixedArray
    /\ fingerprintToTurnId = << <<ForeignKey(2), ForeignId(2)>> >>
    /\ lsStars = JArr(<<JNum(1), JNull, JStr(<<97>>), JStr(<<97>>)>>)
    /\ starred = << <<49>>, <<110, 117, 108, 108>>, <<97>> >>

\* C12 as stated: whatever is not an array gives an empty index and an empty set, and
\* of an array only the well-formed entries (pairs of strings; string ids) are inserted.
C12_AsStated ==
    [][OpenPage =>
        /\ lsMessageIds.k # "arr" => fingerprintToTurnId' = <<>>
        /\ lsMessageIds.k = "arr" => Range(fingerprintToTurnId') \subseteq StoredPairs(lsMessageIds)
        /\ lsStars.k # "arr" => starred' = <<>>
        /\ lsStars.k = "arr" =>
               Range(starred') \subseteq { item.v : item \in { x \in Range(lsStars.v) : x.k = "str" } }
    ]_vars

\* C13 (as amended): computePlacementInfo places the tooltip on the side with more
\* available room, and on the left when both sides have the same room.
C13_SideWithMoreRoom ==
    tooltip # NoTooltip =>
        LET leftAvail == LeftAvail(dotRect, tipStyle)
            rightAvail == RightAvail(dotRect, innerWidth, tipStyle)
        IN  /\ rightAvail > leftAvail => tooltip.placement = "right"
            /\ leftAvail > rightAvail => tooltip.placement = "left"
            /\ leftAvail = rightAvail => tooltip.placement = "left"

\* C13 witness: a dot with the same room, more than none, on both sides: the tooltip
\* is on the left.
C13_Witness ==
    /\ tooltip # NoTooltip
    /\ LeftAvail(dotRect, tipStyle) = RightAvail(dotRect, innerWidth, tipStyle)
    /\ LeftAvail(dotRect, tipStyle) > 0
    /\ tooltip.placement = "left"

\* C13 as stated: the side with more room, and the right on a tie.
C13_AsStated ==
    tooltip # NoTooltip =>
        LET leftAvail == LeftAvail(dotRect, tipStyle)
            rightAvail == RightAvail(dotRect, innerWidth, tipStyle)
        IN  /\ rightAvail > leftAvail => tooltip.placement = "right"
            /\ leftAvail > rightAvail => tooltip.placement = "left"
            /\ leftAvail = rightAvail => tooltip.placement = "right"

\* C14: truncateToThreeLines returns the normalized text and its height when that
\* height is within the box; otherwise it returns prefix + ellipsis for the longest
\* prefix whose prefix + ellipsis measures within the box, and the height it
\* returns, like the measured height of the text it returns, is within the box.
C14_LongestFittingPrefix ==
    tooltip # NoTooltip =>
        LET raw == Normalize(fullText)
            box == maxH(tipStyle)
            H(content) == offsetHeight(content, tooltip.width, measureEl)
            Cut(k) == TrimEnd(SubSeq(raw, 1, k)) \o Ellipsis
        IN  IF H(raw) <= box
            THEN tooltip.text = raw /\ tooltip.height = H(raw)
            ELSE \E k \in 0..Len(raw) :
                    /\ H(Cut(k)) <= box
                    /\ \A j \in (k + 1)..Len(raw) : H(Cut(j)) > box
                    /\ tooltip.text = Cut(k)
                    /\ tooltip.height <= box
                    /\ H(tooltip.text) <= box

\* C14 witness: a text that does not fit was cut after a space, which was trimmed
\* before the ellipsis; with the space kept the cut text would still fit.
C14_Witness ==
    /\ tooltip # NoTooltip
    /\ offsetHeight(Normalize(fullText), tooltip.width, measureEl) > maxH(tipStyle)
    /\ Len(tooltip.text) >= 2
    /\ tooltip.text[Len(tooltip.text)] = Ellipsis[1]
    /\ \E k \in 1..Len(Normalize(fullText)) :
          /\ Normalize(fullText)[k] = Space
          /\ tooltip.text = SubSeq(Normalize(fullText), 1, k - 1) \o Ellipsis
          /\ offsetHeight(SubSeq(Normalize(fullText), 1, k) \o Ellipsis,
                          tooltip.width, measureEl) <= maxH(tipStyle)

PolicyGives(m, fingerprint, id, attempts) ==
    LET baseHash == BaseHashOf[fingerprint]
        Free(candidate) == ~isTurnIdTaken(m, candidate, fingerprint)
        free == { suffix \in 1..attempts : Free(SuffixCandidate(fingerprint, baseHash, suffix)) }
    IN  IF Free(DsTurn \o baseHash) THEN id = DsTurn \o baseHash
        ELSE IF free # {}
        THEN id = SuffixCandidate(fingerprint, baseHash,
                                  CHOOSE suffix \in free : \A other \in free : suffix <= other)
        ELSE \E t \in Clock : id = DsTurn \o baseHash \o Dash \o toString36(DateNow(t))

\* a step of ensureMessageId that inserted a pair: the index changed, the flag is set
\* and the debounced flush is pending
InsertStep ==
    /\ fingerprintToTurnId' # fingerprintToTurnId
    /\ fingerprintMapDirty'
    /\ persistTimer'

\* C16 (as amended): when the base candidate is bound to another fingerprint,
\* ensureMessageId takes the first free one of 9 suffixed candidates (attempts 1 to
\* 9), and falls back to the timestamp only when all 9 are taken.
C16_NineSuffixes ==
    [][InsertStep =>
        LET entry == fingerprintToTurnId'[Len(fingerprintToTurnId')]
        IN  PolicyGives(fingerprintToTurnId, entry[1], entry[2], 9)
    ]_vars

\* C16 witness: the index holds a fingerprint under the base candidate, another one
\* under a suffixed candidate and a third one under a timestamp.
C16_Witness ==
    \E i, j, k \in 1..Len(fingerprintToTurnId) :
        LET fingerprint == fingerprintToTurnId[k][1]
            baseHash == BaseHashOf[fingerprint]
        IN  /\ i # k /\ j # k
            /\ fingerprintToTurnId[i][2] = DsTurn \o baseHash
            /\ fingerprintToTurnId[j][2] = SuffixCandidate(fingerprint, baseHash, 1)
            /\ \E t \in Clock :
                  fingerprintToTurnId[k][2] = DsTurn \o baseHash \o Dash \o toString36(DateNow(t))

\* C16 as stated: the first free one of 10 suffixed candidates is taken, the timestamp
\* only when all 10 are taken.
C16_AsStated ==
    [][InsertStep =>
        LET entry == fingerprintToTurnId'[Len(fingerprintToTurnId')]
        IN  PolicyGives(fingerprintToTurnId, entry[1], entry[2], 10)
    ]_vars

\* C17: an insertion into an index of fingerprintMapLimit entries or more removes the
\* Len - fingerprintMapLimit + 1 oldest entries and nothing else, and the new pair
\* comes last behind all the entries that were newer than the removed ones.
C17_OldestEvicted ==
    [][(InsertStep /\ Len(fingerprintToTurnId) >= fingerprintMapLimit) =>
        LET overflow == Len(fingerprintToTurnId) - fingerprintMapLimit + 1
            kept == SubSeq(fingerprintToTurnId, overflow + 1, Len(fingerprintToTurnId))
            entry == fingerprintToTurnId'[Len(fingerprintToTurnId')]
        IN  /\ ~MapHas(fingerprintToTurnId, entry[1])
            /\ fingerprintToTurnId' = Append(kept, entry)
            /\ Len(fingerprintToTurnId') = fingerprintMapLimit
    ]_vars

\* C17 witness: the index is full and dirty, and the fingerprint this instance resolved
\* earlier is no longer in it.
C17_Witness ==
    /\ Len(fingerprintToTurnId) = fingerprintMapLimit
    /\ fingerprintMapDirty
    /\ issued.here
    /\ ~MapHas(fingerprintToTurnId, Watched)

\* the store holds what persistFingerprintMap writes for the index as it is
Flushed ==
    /\ ~fingerprintMapDirty
    /\ lsWritten
    /\ lsMessageIds = PersistedEntries(fingerprintToTurnId)

RecalcRun ==
    \E st \in ScrollTops, vh \in TrackHeights :
        \/ \E top \in OffsetTops : AppendTurn(top, st, vh)
        \/ RemoveTurns(st, vh)
        \/ ContentChange(st, vh)
        \/ ZeroTurnsTimerFire(st, vh)

\* the run finds user turns and so goes on to replace this.markers
ReplacesMarkers == Len(offsetTops') > 0 /\ RecalcRun

\* C20: markersVersion never decreases; every run of recalculateAndRenderMarkers that
\* replaces the markers array increases it (by one), also when the new array equals
\* the old one; and a step that is not such a run (a run that finds no user turn, a
\* resize, a scroll frame) leaves it as it was.
C20_VersionCountsRebuilds ==
    /\ [][markersVersion' >= markersVersion]_vars
    /\ [][IF ReplacesMarkers
          THEN /\ markersVersion' = markersVersion + 1
               /\ markers' = BuildMarkers(offsetTops').markers
          ELSE markersVersion' = markersVersion]_vars

\* markers were rebuilt three times, the last time to an array of one marker: turns
\* were removed in between, or a rebuild found the turns unchanged
C20_Witness ==
    /\ markersVersion = 3
    /\ Len(markers) = 1
    /\ Len(offsetTops) = 1


\* C21: in every state reached through rebuilds, scroll frames, slider drags and
\* resizes, visibleRange has 0 <= start, start <= end + 1 and
\* end <= markers.length - 1; so a range that holds no index has end = start - 1.
C21_RangeWellFormed ==
    /\ 0 <= visibleRange.start
    /\ visibleRange.start <= visibleRange.end + 1
    /\ visibleRange.end <= Len(markers) - 1
    /\ (visibleRange.end < visibleRange.start => visibleRange.end = visibleRange.start - 1)

\* a pass found every marker above the buffered window: the range is empty and
\* starts past the last marker
C21_Witness ==
    /\ viewport.fresh
    /\ Len(markers) > 1
    /\ visibleRange.start = Len(markers)
    /\ visibleRange.end = Len(markers) - 1


\* a pass that is not part of a rebuild follows a completed pass
PassAfterPass ==
    /\ viewport.fresh
    /\ viewport'.fresh
    /\ markersVersion' = markersVersion

\* C22: after every completed pass the markers holding an element are exactly those
\* with index in [start, end]; and in a pass that follows a completed pass with no
\* run of recalculateAndRenderMarkers in between, a marker inside both the previous
\* and the new range holds the same element as before, and a marker that left the
\* range holds none.
C22_BindingsFollowRange ==
    /\ [](viewport.fresh =>
            /\ Len(dotElement) = Len(markers)
            /\ \A i \in 1..Len(markers) :
                  dotElement[i] # NoDot <=> InRange(i - 1, visibleRange))
    /\ [][PassAfterPass =>
            \A i \in 1..Len(markers) :
               /\ (InRange(i - 1, visibleRange) /\ InRange(i - 1, visibleRange')) =>
                     (dotElement'[i] = dotElement[i] /\ dotElement[i] # NoDot)
               /\ (InRange(i - 1, visibleRange) /\ ~InRange(i - 1, visibleRange')) =>
                     dotElement'[i] = NoDot]_vars

\* the last pass kept the element of one marker and removed that of another
C22_Witness ==
    /\ viewport.fresh
    /\ viewport.diffed
    /\ \E i \in 1..Len(markers) : dotElement[i] # NoDot
    /\ \E i \in 1..Len(markers) : dotElement[i] = NoDot


\* C23: whenever a pass gets to read them (the bar is there and markers is not empty),
\* yPositions is as long as markers and yPositions[i] is the position that
\* updateTimelineGeometry gives markers[i] in the bar as it is; after rebuilds with
\* and without user turns, resizes, scroll frames and the teardown of the instance.
C23_PositionsAligned ==
    PassReads =>
       /\ Len(yPositions) = Len(markers)
       /\ yPositions = updateTimelineGeometry(markers, contentSpanPx, barHeight,
                                              trackPadding, minGap).yPositions

\* a run that found no user turn kept two or more markers, and a pass can read them
C23_Witness ==
    /\ PassReads
    /\ Len(offsetTops) = 0
    /\ Len(markers) > 1
    /\ Len(yPositions) = Len(markers)

\* the instance was destroyed with markers laid out: markers is empty, yPositions is
\* not, and no pass reads them
C23_WitnessTeardown ==
    /\ ~uiTrack
    /\ Len(markers) = 0
    /\ Len(yPositions) > 1


\* the step is a pointermove handled by handleSliderDrag
SliderMoveStep == \E ratio \in SliderRatios, vh \in SyncBarHeights : handleSliderDrag(ratio, vh)

\* C24: while this.sliderDragging is set, a call of syncTimelineTrackToMain (from a
\* scroll frame, a resize or a rebuild) returns before it computes anything and assigns
\* nothing: track.scrollTop is as it was, but for the browser keeping it inside a
\* canvas the handler has shrunk; and any other change of it is a handleSliderDrag.
C24_DragSuppressesSync ==
    /\ [][(sliderDragging /\ lastSync'.called) =>
             /\ ~lastSync'.computed
             /\ ~lastSync'.wrote
             /\ trackScrollTop' = DomClamp(trackScrollTop, contentHeight', lastSync'.th)]_vars
    /\ [][(sliderDragging /\ ~SliderMoveStep) =>
             \/ trackScrollTop' = trackScrollTop
             \/ /\ lastSync'.called
                /\ trackScrollTop' = DomClamp(trackScrollTop, contentHeight', lastSync'.th)]_vars

\* during a drag that has moved the track, a handler has just called
\* syncTimelineTrackToMain over a canvas on which it would otherwise compute a target
C24_Witness ==
    /\ sliderDragging
    /\ sliderPointer
    /\ lastSync.called
    /\ trackScrollTop > 1
    /\ contentHeight # 0

\* C25 (as stated): once the pointer that pressed the slider handle is no longer down,
\* released or cancelled, sliderDragging is false.
C25_AsStated == ~sliderPointer => ~sliderDragging

\* C26 (as stated): after a call of syncTimelineTrackToMain that computed target, the
\* track's offset is within 1 pixel of target and target lies in
\* [0, contentHeight - trackHeight].
C26_AsStated ==
    (lastSync.called /\ lastSync.computed) =>
       /\ Abs(trackScrollTop - lastSync.target) <= 1
       /\ 0 <= lastSync.target
       /\ lastSync.target <= contentHeight \div 2 - lastSync.th

\* target is Math.round(r / den * maxScroll) for a ratio r / den in [0, 1] that some
\* scroll position gives over the cached firstUserTurnOffset and contentSpanPx
TargetOf(target, maxScroll) ==
    \E s \in MainScrollTops, mainH \in MainHeights :
       LET den == 20 * Max(1, contentSpanPx')
           r == Max(0, Min(den, 20 * s + 9 * mainH - 20 * firstUserTurnOffset'))
       IN  /\ 2 * den * target - 2 * r * maxScroll <= den
           /\ 2 * den * target - 2 * r * maxScroll > -den

\* C26: a call of syncTimelineTrackToMain computes target exactly when no drag is
\* active and contentHeight is not 0; then target is
\* round(ratio * max(0, contentHeight - trackHeight)) and lies in
\* [0, max(0, contentHeight - trackHeight)], the offset is written only when it differs
\* from target by more than 1 pixel, and it is then target, so that after the call the
\* offset is within 1 pixel of target.
C26_SyncWithinOnePixel ==
    /\ [][lastSync'.called =>
             (lastSync'.computed <=> (~sliderDragging /\ contentHeight' # 0))]_vars
    /\ [][(lastSync'.called /\ lastSync'.computed) =>
             LET target == lastSync'.target
                 maxScroll == Max(0, contentHeight' \div 2 - lastSync'.th)
                 \* the offset the call reads
                 Offset == DomClamp(trackScrollTop, contentHeight', lastSync'.th)
             IN  /\ TargetOf(target, maxScroll)
                 /\ 0 <= target /\ target <= maxScroll
                 /\ lastSync'.wrote <=> Abs(Offset - target) > 1
                 /\ lastSync'.wrote => trackScrollTop' = target
                 /\ ~lastSync'.wrote => trackScrollTop' = Offset
                 /\ Abs(trackScrollTop' - target) <= 1]_vars

\* a call left the offset one pixel off its target
C26_Witness ==
    /\ lastSync.called
    /\ lastSync.computed
    /\ Abs(trackScrollTop - lastSync.target) = 1

\* the last marker in array order whose mapped top is <= the reference line, the
\* first marker when there is none
LastAtOrAbove(below) ==
    LET qualify == { i \in 1..Len(MarkerIds) : below[i] }
    IN  IF qualify = {} THEN MarkerIds[1]
        ELSE MarkerIds[CHOOSE i \in qualify : \A j \in qualify : j <= i]

\* C27 (as stated): a run of computeActiveByScroll resolves as candidate the last marker
\* in array order whose mapped top is <= the reference line, the first marker when no
\* marker qualifies, and the last marker when all qualify.
C27_AsStated ==
    [][\A below \in [1..Len(MarkerIds) -> BOOLEAN] :
          computeActiveByScroll(below) => resolved'.last.id = LastAtOrAbove(below)]_vars

\* C28 (as stated): a change of activeTurnId by the resolver, immediate or by the
\* timer, comes at least 120ms after the change it applied before
\* (lastActiveChangeTime is the time of that change).
C28_AsStated ==
    [][activeTurnId' # activeTurnId =>
          now - lastActiveChangeTime >= minActiveChangeInterval]_vars

\* C29 (as stated): after the active-change timer has fired, activeTurnId is the
\* candidate resolved by the most recent run of computeActiveByScroll before the firing.
C29_AsStated ==
    [][ActiveChangeTimerFire => activeTurnId' = resolved.last.id]_vars

\* C30 (as stated): the width of a placed tooltip is the largest tier that fits the
\* room on the chosen side, clamped to [120, maxW]; when no tier fits there, the width
\* is still no more than the room or the hard minimum of 120, and the other side does
\* not have more room.
C30_AsStated ==
    tooltip.placement # "none" =>
        LET leftAvail == LeftAvail(dotRect, tipStyle)
            rightAvail == RightAvail(dotRect, innerWidth, tipStyle)
            avail == IF tooltip.placement = "right" THEN rightAvail ELSE leftAvail
            other == IF tooltip.placement = "right" THEN leftAvail ELSE rightAvail
            fits == TierFrom(1, avail)
        IN  IF fits # 0
            THEN tooltip.width = Max(120, Min(fits, tipStyle.maxW))
            ELSE /\ 120 <= tooltip.width
                 /\ tooltip.width <= Max(120, Min(avail, tipStyle.maxW))
                 /\ other <= avail

\* C31: the browser holds at most one callback of scheduleScrollSync, exactly when
\* scrollRafId is set; while the scroll position differs from the one the last pass
\* read, a pass is pending; a pending pass runs (or is cancelled by destroy()), and
\* the last scroll position is eventually the one a pass has read.
C31_OnePassPending ==
    /\ [](frames <= 1 /\ (scrollRafId <=> frames = 1))
    /\ []((uiTrack /\ scrollPos # passPos) => scrollRafId)
    /\ [][(frames' < frames /\ uiTrack') => (passPos' = scrollPos /\ ~scrollRafId')]_vars
    /\ scrollRafId ~> ~scrollRafId
    /\ (uiTrack /\ scrollPos # passPos) ~> (~uiTrack \/ scrollPos = passPos)

\* a pass has run, the container was scrolled again, and one pass is pending
C31_Witness ==
    /\ uiTrack
    /\ passPos = 1
    /\ scrollPos = 0
    /\ scrollRafId
    /\ frames = 1

MutationStep == \E tops \in SchedTurns : onMutation(tops)

\* C32: the browser holds at most one timeout of the debounced rebuild, and holds one
\* while a notified change has not been followed by a rebuild; its callback runs no
\* sooner than 350ms after the last notification and runs recalculateAndRenderMarkers;
\* and unless notifications keep arriving, every notified change is eventually
\* followed by a rebuild (or the instance is torn down).
C32_DebouncedRebuild ==
    /\ [](Len(rebuildTimeouts) <= 1)
    /\ []((uiTrack /\ stale) => Len(rebuildTimeouts) = 1)
    /\ [][Len(rebuildTimeouts') < Len(rebuildTimeouts) =>
             /\ sinceMutation = Ticks(rebuildDelay)
             /\ lastRebuild'.by = "debounce"
             /\ (uiTrack => ~stale')]_vars
    /\ \/ []<><<MutationStep>>_vars
       \/ (uiTrack /\ stale) ~> (~uiTrack \/ ~stale)

\* the debounced rebuild has run over a conversation of two user turns
C32_Witness ==
    /\ uiTrack
    /\ lastRebuild.by = "debounce"
    /\ lastRebuild.found = "some"
    /\ Len(offsetTops) = 2
    /\ ~stale
    /\ rebuildTimeouts = <<>>

RebuildStep == RebuildTimeoutFire \/ ZeroTimeoutFire

\* C33: the browser holds at most one timeout of zeroTurnsTimer, exactly when
\* zeroTurnsTimer is set; a rebuild that finds no user turn leaves one pending, set for
\* 350ms when the rebuild armed it; a rebuild that finds a user turn leaves none; and a
\* rebuild on a torn-down instance arms none.
C33_ZeroTurnsRetry ==
    /\ [](Len(zeroTimeouts) <= 1 /\ (zeroTurnsTimer <=> Len(zeroTimeouts) = 1))
    /\ [][RebuildStep =>
             CASE lastRebuild'.found = "zero" ->
                    /\ zeroTurnsTimer'
                    /\ lastRebuild'.armed => zeroTimeouts' = <<Ticks(zeroTurnsDelay)>>
                    /\ lastRebuild'.by = "retry" => lastRebuild'.armed
               [] lastRebuild'.found = "some" -> ~zeroTurnsTimer' /\ zeroTimeouts' = <<>>
               [] OTHER -> ~uiTrack /\ Len(zeroTimeouts') <= Len(zeroTimeouts)]_vars

\* a retry has found no user turn again and has armed the next retry
C33_Witness ==
    /\ uiTrack
    /\ lastRebuild = [by |-> "retry", found |-> "zero", armed |-> TRUE]
    /\ zeroTurnsTimer
    /\ zeroTimeouts = <<Ticks(zeroTurnsDelay)>>

ResizeStep == \E h \in BarHeights, st \in ScrollTops, vh \in TrackHeights : ResizeBar(h, st, vh)

\* C34 (as stated): a resize notification leaves a settle correction pending
\* (resizeIdleTimer set), which runs reapplyMinGapAfterResize once the resizes stop.
C34_AsStated == [][ResizeStep => resizeIdleTimer']_vars

\* C35 as stated: in the markers a rebuild built, no two markers have the same id,
\* also when two of the anchors have the same role, text, markup and timestamp.
C35_AsStated ==
    \A i, j \in 1..Len(builtIds) : i # j => builtIds[i] # builtIds[j]

\* C36 as stated: after any toggleStar calls, storage events and rebuilds, the starred
\* flag of every marker says whether its id is in the starred set.
C36_AsStated ==
    \A i \in 1..Len(builtIds) : builtStarred[i] <=> builtIds[i] \in Range(starred)

\* C37 as stated: whenever there are markers and neither the active-change timer nor
\* a synchronization pass is pending, activeTurnId is the id of one of the markers.
C37_AsStated ==
    (liveIds # <<>> /\ activeChangeTimer = NoTimer /\ ~scrollRafId) =>
        activeTurnId \in Range(liveIds)

\* C38 as stated: a press never both toggles the star and navigates, however long the
\* pointer is held after the toggle; and a press that was released, or moved beyond
\* the tolerance, before the timer ran toggles nothing.
C38_AsStated ==
    /\ ~(press.toggled /\ press.navigated)
    /\ ~(press.toggled /\ press.early)

\* C39 as stated: no write of the index to the store leaves out a pair that an
\* earlier write of the page session stored, other than pairs eviction removed.
C39_AsStated == lastWrite.dropped = {}

\* positions within [minTop, maxTop] whose adjacent gaps are at least gap
GapValid(c) ==
    /\ \A i \in 1..Len(c.positions) : c.minTop <= c.positions[i] /\ c.positions[i] <= c.maxTop
    /\ \A i \in 1..(Len(c.positions) - 1) : c.positions[i + 1] - c.positions[i] >= c.gap

\* the markers fit: (n - 1) * gap <= maxTop - minTop
GapFits(c) == (Len(c.positions) - 1) * c.gap <= c.maxTop - c.minTop

\* C40: applyMinGap returns valid positions as they are, and for any positions that
\* fit between the bounds it returns its own result unchanged when applied to it.
C40_FixedPointAndIdempotent ==
    /\ (gapRuns >= 1 /\ GapValid(gapIn)) => gapOut = gapIn.positions
    /\ (gapRuns = 2 /\ GapFits(gapIn)) => gapAgain = gapOut

\* C40 witness: three positions that fit were moved by the backward pass, and the
\* second call returned them as the first had; and the result is itself valid input.
C40_Witness ==
    /\ gapRuns = 2
    /\ GapFits(gapIn)
    /\ ~GapValid(gapIn)
    /\ gapIn.positions = <<4, 4, 4>>
    /\ gapIn.gap = 1
    /\ gapOut = <<2, 3, 4>>
    /\ gapAgain = gapOut

====
